---------------------------- MODULE Spec2Model ----------------------------
(***************************************************************************)
(* A model of mygit (shashjar/git-in-go): the delta and pack codecs at     *)
(* byte level, and the repository state machine (object store, refs,      *)
(* HEAD) driven by init, commit, branch, checkout, clone, pull and push.   *)
(*                                                                         *)
(* Byte strings are sequences of integers 0..255.  Go slices are indexed   *)
(* from 0: At(s, i) is s[i] and Slice(s, lo, hi) is s[lo:hi].  A Go         *)
(* function that returns (value, error) is an operator returning a record  *)
(* whose st field is "ok" or "err"; an index out of range, which makes the *)
(* Go runtime panic, is st = "panic".                                      *)
(***************************************************************************)
EXTENDS Integers, Sequences, FiniteSets, Bags, TLC

VARIABLES
    dKind,      \* delta run: "raw" (bytes drawn directly) | "enc" (bytes encoded from dInstrs) | "idle"
    dBase,      \* delta run: the base object content
    dDelta,     \* delta run: the delta data handed to applyDelta
    dInstrs,    \* delta run: the instruction list dDelta was encoded from (<<>> when raw)
    dSrcSize,   \* delta run: the source size declared in dDelta (encoded runs)
    dTgtSize,   \* delta run: the target size declared in dDelta (encoded runs)
    dRes,       \* delta run: what applyDelta returned
    dPhase,     \* delta run: "input" | "done" | "idle"
    pStore,     \* pack run: the object store the pack is built from
    pHashes,    \* pack run: the hashes handed to CreatePackfile
    pCreateRes, \* pack run: "ok" | "err" from CreatePackfile ("none" before the call)
    pPack,      \* pack run: the pack bytes handed to ReadPackfile
    pCorrupt,   \* pack run: how pPack was damaged in transit ("none": not)
    pDst0,      \* pack run: the receiving object store before ReadPackfile
    pDst,       \* pack run: the receiving object store
    pReadRes,   \* pack run: what ReadPackfile returned ("none" before the call)
    pPhase,     \* pack run: "build" | "packed" | "recv" | "read" | "idle"
    pEntries,   \* pack run: the entries a received pack was put together from
    kKind,      \* pkt-line run: "frames" | "response" | "idle"
    kPayloads,  \* pkt-line run: the payloads framed, or the lines of the report
    kBody,      \* pkt-line run: the stream
    kRes,       \* pkt-line run: what readPktLines or receivePackRequest returned
    kPhase,     \* pkt-line run: "input" | "framed" | "done" | "idle"
    gitFiles,   \* repository: the content of .git/HEAD and of the ref files, by path under .git
    gitDirs,    \* repository: the directories under .git that exist ({}: no repository)
    objects,    \* repository: .git/objects
    stage,      \* repository: the staging index, entries sorted by path
    work,       \* repository: the working tree, files sorted by path
    srvRefs,    \* remote: branch name -> commit hash
    srvObjects, \* remote: its objects
    made,       \* number of commits the commit and branch commands have created
    pc,         \* the running command's position ("idle": none, "done": returned, "off")
    loc,        \* the running command's local variables
    hist        \* the running command: its name, outcome and what it has done so far

deltaVars == <<dKind, dBase, dDelta, dInstrs, dSrcSize, dTgtSize, dRes, dPhase>>
packVars  == <<pStore, pHashes, pCreateRes, pPack, pCorrupt, pDst0, pDst, pReadRes, pPhase,
              pEntries>>

pktVars   == <<kKind, kPayloads, kBody, kRes, kPhase>>

repoVars  == <<gitFiles, gitDirs, objects, stage, work, srvRefs, srvObjects, made, pc, loc, hist>>

vars == <<deltaVars, packVars, pktVars, repoVars>>

\* What the steps of one kind of run leave alone
notDeltaVars == <<packVars, pktVars, repoVars>>
notPackVars  == <<deltaVars, pktVars, repoVars>>
notPktVars   == <<deltaVars, packVars, repoVars>>
notRepoVars  == <<deltaVars, packVars, pktVars>>

-----------------------------------------------------------------------------
(* Bytes and slices *)

At(s, i) == s[i + 1]
Slice(s, lo, hi) == SubSeq(s, lo + 1, hi)
BitSet(b, j) == (b \div (2 ^ j)) % 2 = 1

Ok(v)  == [st |-> "ok", out |-> v]
Err    == [st |-> "err", out |-> <<>>]
Panic  == [st |-> "panic", out |-> <<>>]
NoRes  == [st |-> "none", out |-> <<>>]

\* Let(v, F) is F(v), the value v computed once.
Let(v, F(_)) == CHOOSE res \in {F(x) : x \in {v}} : TRUE

-----------------------------------------------------------------------------
(* smart_http_protocol.go: variable-length sizes *)

\* The loop of readVariableSizeEncoding: b is the byte read last.
RECURSIVE readVariableSizeLoop(_, _, _, _, _, _)
readVariableSizeLoop(data, i, b, decodedSize, shift, bytesRead) ==
    IF b < 128
    THEN [st |-> "ok", val |-> decodedSize, i |-> i + bytesRead]
    ELSE IF i + bytesRead >= Len(data)
         THEN [st |-> "err", val |-> -1, i |-> -1]
         ELSE readVariableSizeLoop(data, i, At(data, i + bytesRead),
                  decodedSize + (At(data, i + bytesRead) % 128) * (2 ^ shift),
                  shift + 7, bytesRead + 1)

\* data[i] is read unchecked: i at or past the end panics.
readVariableSizeEncoding(data, i, shift) ==
    IF i >= Len(data)
    THEN [st |-> "panic", val |-> -1, i |-> -1]
    ELSE readVariableSizeLoop(data, i, At(data, i), At(data, i) % (2 ^ shift), shift, 1)

-----------------------------------------------------------------------------
(* smart_http_protocol.go: applyDelta *)

COPY_DEFAULT_SIZE == 65536

\* The two "for j" loops of a COPY command: the bytes announced by the bits
\* bit0+j of cmd, j = 0..jmax, little-endian.  deltaInstructions[i] is read
\* unchecked.
RECURSIVE readCopyField(_, _, _, _, _, _, _)
readCopyField(ins, i, cmd, j, jmax, bit0, acc) ==
    IF j > jmax
    THEN [st |-> "ok", val |-> acc, i |-> i]
    ELSE IF BitSet(cmd, bit0 + j)
         THEN IF i >= Len(ins)
              THEN [st |-> "panic", val |-> -1, i |-> -1]
              ELSE readCopyField(ins, i + 1, cmd, j + 1, jmax, bit0,
                                 acc + At(ins, i) * (256 ^ j))
         ELSE readCopyField(ins, i, cmd, j + 1, jmax, bit0, acc)

\* "If numCopyBytes is 0, default to copying 0x10000 (65536) bytes"
copyLengthAsRead(numCopyBytes) == numCopyBytes
copyLength(numCopyBytes) ==
    IF numCopyBytes = 0 THEN COPY_DEFAULT_SIZE ELSE numCopyBytes

\* The COPY branch, the offset and size fields read
copyFromBase(ins, off, sz, target, base) ==
    IF off.val + copyLength(sz.val) > Len(base)
    THEN [st |-> "err", i |-> -1, target |-> <<>>]
    ELSE [st |-> "ok", i |-> sz.i,
          target |-> target \o Slice(base, off.val, off.val + copyLength(sz.val))]

\* cmd & 0x80
cmdType(cmd) == cmd - (cmd % 128)

\* One command of the loop of applyDelta: cmd is the command byte and i the
\* position after it.  The result is the position after the command and the
\* target with its bytes appended.
applyCommand(ins, i, cmd, target, base) ==
    IF cmdType(cmd) = 128
    THEN Let(readCopyField(ins, i, cmd, 0, 3, 0, 0), LAMBDA off :
         IF off.st # "ok" THEN [st |-> off.st, i |-> -1, target |-> <<>>]
         ELSE Let(readCopyField(ins, off.i, cmd, 0, 2, 4, 0), LAMBDA sz :
              IF sz.st # "ok" THEN [st |-> sz.st, i |-> -1, target |-> <<>>]
              ELSE copyFromBase(ins, off, sz, target, base)))
    ELSE IF cmdType(cmd) = 0
    THEN IF i + (cmd % 128) > Len(ins)
         THEN [st |-> "err", i |-> -1, target |-> <<>>]
         ELSE [st |-> "ok", i |-> i + (cmd % 128),
               target |-> target \o Slice(ins, i, i + (cmd % 128))]
    ELSE [st |-> "err", i |-> -1, target |-> <<>>]

\* The command loop of applyDelta.
RECURSIVE applyInstructions(_, _, _, _)
applyInstructions(ins, i, target, base) ==
    IF i >= Len(ins)
    THEN Ok(target)
    ELSE Let(applyCommand(ins, i + 1, At(ins, i), target, base), LAMBDA r :
         IF r.st # "ok" THEN [st |-> r.st, out |-> <<>>]
         ELSE applyInstructions(ins, r.i, r.target, base))

applyDelta(deltaData, baseObjContent) ==
    Let(readVariableSizeEncoding(deltaData, 0, 7), LAMBDA src :
    IF src.st # "ok" THEN [st |-> src.st, out |-> <<>>]
    ELSE Let(readVariableSizeEncoding(deltaData, src.i, 7), LAMBDA tgt :
         IF tgt.st # "ok" THEN [st |-> tgt.st, out |-> <<>>]
         ELSE IF src.val # Len(baseObjContent) THEN Err
         ELSE Let(applyInstructions(Slice(deltaData, tgt.i, Len(deltaData)),
                                    0, <<>>, baseObjContent), LAMBDA r :
              IF r.st # "ok" THEN r
              ELSE IF Len(r.out) # tgt.val THEN Err
              ELSE r)))

-----------------------------------------------------------------------------
(* crypto/sha1, compress/zlib, encoding/hex, strconv as the code uses them *)

\* sha1.Sum: a 20-byte digest of the bytes.  The digest here is a pair of
\* position-weighted checksums laid out over 20 bytes: it depends on every
\* byte and on the order of the bytes, which is all the code asks of SHA-1.
\* WeightedSum adds the terms (data[k] + 1) * weight of k, each at least 1:
\* the size of the bag that holds k that many times.
WeightedSum(data, lo, hi, mult, modulus) ==
    BagCardinality([k \in lo..hi |-> (data[k] + 1) * (((k * mult) % modulus) + 1)])

Sha1Words(data) ==
    <<(WeightedSum(data, 1, Len(data), 31, 251) + Len(data) + 7) % 65521,
      (WeightedSum(data, 1, Len(data), 57, 241) + 11) % 65519>>

Sha1Sum(data) ==
    Let(Sha1Words(data), LAMBDA w :
        [k \in 1..20 |-> IF k % 4 = 1 THEN w[1] \div 256
                         ELSE IF k % 4 = 2 THEN w[1] % 256
                         ELSE IF k % 4 = 3 THEN w[2] \div 256
                         ELSE w[2] % 256])

HexDigit(n) == IF n < 10 THEN 48 + n ELSE 87 + n
\* hex.EncodeToString / fmt.Sprintf("%x", bytes): two lowercase digits a byte
HexEncode(data) ==
    [k \in 1..(2 * Len(data)) |->
        IF k % 2 = 1 THEN HexDigit(data[(k + 1) \div 2] \div 16)
        ELSE HexDigit(data[(k + 1) \div 2] % 16)]

\* fmt.Sprintf("%d", n) for n >= 0
RECURSIVE Itoa(_)
Itoa(n) == IF n < 10 THEN <<48 + n>> ELSE Itoa(n \div 10) \o <<48 + (n % 10)>>

\* strconv.Atoi: an optional sign, then one or more decimal digits
RECURSIVE AtoiDigits(_, _, _)
AtoiDigits(s, k, acc) ==
    IF k > Len(s) THEN [st |-> "ok", val |-> acc]
    ELSE IF s[k] \in 48..57 THEN AtoiDigits(s, k + 1, acc * 10 + (s[k] - 48))
    ELSE [st |-> "err", val |-> 0]

Atoi(s) ==
    IF s = <<>> THEN [st |-> "err", val |-> 0]
    ELSE IF s[1] \in {43, 45}
    THEN IF Len(s) = 1 THEN [st |-> "err", val |-> 0]
         ELSE Let(AtoiDigits(s, 2, 0), LAMBDA r :
              IF s[1] = 45 THEN [st |-> r.st, val |-> 0 - r.val] ELSE r)
    ELSE AtoiDigits(s, 1, 0)

\* A zlib stream: the two header bytes, the data as one stored block (its
\* length, then the bytes), and a check value over the data.  Like zlib's it
\* is self-delimiting and rejects a wrong header, a cut stream and a wrong
\* check value.
ZlibCheck(data) == (WeightedSum(data, 1, Len(data), 3, 13) + 1) % 251
zlibCompressBytes(b) == <<120, 156, Len(b)>> \o b \o <<ZlibCheck(b)>>

\* zlibDecompressWithReadCount: the data and the number of bytes consumed
zlibDecompressWithReadCount(b) ==
    IF Len(b) < 3 \/ b[1] # 120 \/ b[2] # 156
    THEN [st |-> "err", out |-> <<>>, n |-> 0]
    ELSE IF Len(b) < b[3] + 4
    THEN [st |-> "err", out |-> <<>>, n |-> 0]
    ELSE IF b[b[3] + 4] # ZlibCheck(SubSeq(b, 4, 3 + b[3]))
    THEN [st |-> "err", out |-> <<>>, n |-> 0]
    ELSE [st |-> "ok", out |-> SubSeq(b, 4, 3 + b[3]), n |-> b[3] + 4]

zlibDecompress(b) ==
    Let(zlibDecompressWithReadCount(b), LAMBDA r : [st |-> r.st, out |-> r.out])

-----------------------------------------------------------------------------
(* objects.go: the object store *)

OBJECT_HASH_LENGTH_STRING == 40
OBJECT_HASH_LENGTH_BYTES  == 20

Blob   == 0
Tree   == 1
Commit == 2

\* Go strings that are only compared are TLA+ strings; StrBytes gives the
\* bytes of those written to a file and BytesStr reads them back.
TypeNames == {"blob", "tree", "commit", "tag", "unknown"}
StrBytes(str) ==
    CASE str = "blob"    -> <<98, 108, 111, 98>>
      [] str = "tree"    -> <<116, 114, 101, 101>>
      [] str = "commit"  -> <<99, 111, 109, 109, 105, 116>>
      [] str = "tag"     -> <<116, 97, 103>>
      [] str = "unknown" -> <<117, 110, 107, 110, 111, 119, 110>>
      [] OTHER           -> <<63>>
BytesStr(b) ==
    IF \E n \in TypeNames : StrBytes(n) = b
    THEN CHOOSE n \in TypeNames : StrBytes(n) = b
    ELSE "?"

ObjectType_toString(ot) ==
    IF ot = Blob THEN "blob"
    ELSE IF ot = Tree THEN "tree"
    ELSE IF ot = Commit THEN "commit"
    ELSE "unknown"

objTypeFromString(objType) ==
    IF objType = "blob" THEN [st |-> "ok", val |-> Blob]
    ELSE IF objType = "tree" THEN [st |-> "ok", val |-> Tree]
    ELSE IF objType = "commit" THEN [st |-> "ok", val |-> Commit]
    ELSE [st |-> "err", val |-> -1]

\* The object store: the files under .git/objects, by the 40-digit hash that
\* names them.
EmptyStore == << >>
StorePut(store, h, file) ==
    [x \in (DOMAIN store) \cup {h} |-> IF x = h THEN file ELSE store[x]]

\* bytes.IndexByte(data, c), from position k on (-1: none)
RECURSIVE IndexByteFrom(_, _, _)
IndexByteFrom(data, c, k) ==
    IF k >= Len(data) THEN -1
    ELSE IF At(data, k) = c THEN k
    ELSE IndexByteFrom(data, c, k + 1)
IndexByte(data, c) == IndexByteFrom(data, c, 0)

Count(data, c) == Cardinality({k \in 1..Len(data) : data[k] = c})

ObjErr == [st |-> "err", type |-> -1, size |-> -1, content |-> <<>>]

\* The header "<type> <size>" of an object file, and the content after it
parseObjectHeader(header, sp, content) ==
    Let(objTypeFromString(BytesStr(Slice(header, 0, sp))), LAMBDA headerObjType :
    IF headerObjType.st # "ok" THEN ObjErr
    ELSE Let(Atoi(Slice(header, sp + 1, Len(header))), LAMBDA sizeBytes :
         IF sizeBytes.st # "ok" THEN ObjErr
         ELSE [st |-> "ok", type |-> headerObjType.val, size |-> sizeBytes.val,
               content |-> content]))

readObjectFile(objHash, store) ==
    IF objHash \notin DOMAIN store THEN ObjErr
    ELSE Let(zlibDecompress(store[objHash]), LAMBDA z :
         IF z.st # "ok" THEN ObjErr
         ELSE Let(IndexByte(z.out, 0), LAMBDA nullByteIndex :
              IF nullByteIndex = -1 THEN ObjErr
              ELSE Let(Slice(z.out, 0, nullByteIndex), LAMBDA header :
                   IF Count(header, 32) # 1 THEN ObjErr
                   ELSE parseObjectHeader(header, IndexByte(header, 32),
                            Slice(z.out, nullByteIndex + 1, Len(z.out))))))

ObjectFileBytes(objType, contentBytes) ==
    StrBytes(ObjectType_toString(objType)) \o <<32>> \o Itoa(Len(contentBytes)) \o <<0>>
        \o contentBytes

\* createObjectFile that computes the hash and writes no file
hashObjectWithoutWrite(objType, contentBytes, store) ==
    [st |-> "ok", hash |-> HexEncode(Sha1Sum(ObjectFileBytes(objType, contentBytes))),
     store |-> store]

\* createObjectFile that writes the file without compressing it
createObjectFileRaw(objType, contentBytes, store) ==
    Let(ObjectFileBytes(objType, contentBytes), LAMBDA fileBytes :
    Let(HexEncode(Sha1Sum(fileBytes)), LAMBDA objHash :
        [st |-> "ok", hash |-> objHash, store |-> StorePut(store, objHash, fileBytes)]))

\* createObjectFile: the hash, and the store with the file written
createObjectFile(objType, contentBytes, store) ==
    Let(ObjectFileBytes(objType, contentBytes), LAMBDA fileBytes :
    Let(HexEncode(Sha1Sum(fileBytes)), LAMBDA objHash :
        [st |-> "ok", hash |-> objHash,
         store |-> StorePut(store, objHash, zlibCompressBytes(fileBytes))]))

-----------------------------------------------------------------------------
(* packfile.go, smart_http_protocol.go: reading a pack *)

PACKFILE_CHECKSUM_LENGTH == 20
PACKFILE_HEADER_LENGTH   == 12
PACKFILE_VERSION_NUMBER  == 2
PACKFILE_SIGNATURE       == <<80, 65, 67, 75>>

PACKFILE_OBJ_COMMIT    == 1
PACKFILE_OBJ_TREE      == 2
PACKFILE_OBJ_BLOB      == 3
PACKFILE_OBJ_TAG       == 4
PACKFILE_OBJ_OFS_DELTA == 6
PACKFILE_OBJ_REF_DELTA == 7

PackfileObjectType_toString(pot) ==
    IF pot = PACKFILE_OBJ_COMMIT THEN "commit"
    ELSE IF pot = PACKFILE_OBJ_TREE THEN "tree"
    ELSE IF pot = PACKFILE_OBJ_BLOB THEN "blob"
    ELSE IF pot = PACKFILE_OBJ_TAG THEN "tag"
    ELSE IF pot = PACKFILE_OBJ_OFS_DELTA THEN "ofs_delta"
    ELSE IF pot = PACKFILE_OBJ_REF_DELTA THEN "ref_delta"
    ELSE "unknown"

\* binary.BigEndian.Uint32 / AppendUint32
\* The byte strings of a list, one after the other
RECURSIVE Concat(_)
Concat(list) == IF list = <<>> THEN <<>> ELSE Head(list) \o Concat(Tail(list))

Uint32(b) == ((b[1] * 256 + b[2]) * 256 + b[3]) * 256 + b[4]
AppendUint32(n) ==
    <<(n \div 16777216) % 256, (n \div 65536) % 256, (n \div 256) % 256, n % 256>>

verifyPackfileChecksum(packfile) ==
    IF Len(packfile) < PACKFILE_CHECKSUM_LENGTH THEN "err"
    ELSE IF Slice(packfile, Len(packfile) - PACKFILE_CHECKSUM_LENGTH, Len(packfile))
              # Sha1Sum(Slice(packfile, 0, Len(packfile) - PACKFILE_CHECKSUM_LENGTH))
    THEN "err"
    ELSE "ok"

readPackfileHeader(packfile) ==
    IF Len(packfile) < PACKFILE_HEADER_LENGTH THEN [st |-> "err", val |-> -1]
    ELSE IF Slice(packfile, 0, 4) # PACKFILE_SIGNATURE THEN [st |-> "err", val |-> -1]
    ELSE IF Uint32(Slice(packfile, 4, 8)) # PACKFILE_VERSION_NUMBER
         THEN [st |-> "err", val |-> -1]
    ELSE [st |-> "ok", val |-> Uint32(Slice(packfile, 8, 12))]

\* packfile[i] is read unchecked.
readPackfileObjectHeader(packfile, i) ==
    IF i >= Len(packfile)
    THEN [st |-> "panic", type |-> -1, length |-> -1, i |-> -1]
    ELSE Let(readVariableSizeEncoding(packfile, i, 4), LAMBDA r :
         [st |-> r.st, type |-> (At(packfile, i) \div 16) % 8, length |-> r.val, i |-> r.i])

RECURSIVE readVariableOffsetLoop(_, _, _, _, _)
readVariableOffsetLoop(data, i, b, decodedOffset, bytesRead) ==
    IF b < 128
    THEN [st |-> "ok", val |-> decodedOffset, i |-> i + bytesRead]
    ELSE IF i + bytesRead >= Len(data)
         THEN [st |-> "err", val |-> -1, i |-> -1]
         ELSE readVariableOffsetLoop(data, i, At(data, i + bytesRead),
                  (decodedOffset + 1) * 128 + (At(data, i + bytesRead) % 128),
                  bytesRead + 1)

readVariableOffsetEncoding(data, i) ==
    IF i >= Len(data)
    THEN [st |-> "panic", val |-> -1, i |-> -1]
    ELSE readVariableOffsetLoop(data, i, At(data, i), At(data, i) % 128, 1)

decompressPackfileObject(data, i, packfileObjectLength) ==
    IF i > Len(data) THEN [st |-> "panic", out |-> <<>>, i |-> -1]
    ELSE Let(zlibDecompressWithReadCount(Slice(data, i, Len(data))), LAMBDA z :
         IF z.st # "ok" THEN [st |-> "err", out |-> <<>>, i |-> -1]
         ELSE IF Len(z.out) # packfileObjectLength
              THEN [st |-> "err", out |-> <<>>, i |-> -1]
         ELSE [st |-> "ok", out |-> z.out, i |-> i + z.n])

\* What reading one object of a pack returns: the position after the object,
\* the store as the step left it, the hash written (ofs-delta) and the
\* ref-delta to queue (nil: none).
NilRef == [baseObjHash |-> <<>>, deltaData |-> <<>>, nil |-> TRUE]
ReadObj(i, store, hash, ref) ==
    [st |-> "ok", i |-> i, store |-> store, hash |-> hash, ref |-> ref]
ReadFail(st, store) ==
    [st |-> st, i |-> -1, store |-> store, hash |-> <<>>, ref |-> NilRef]

\* A base object: its type and content, and the store as resolving it left it
BaseObj(st, type, content, store) ==
    [st |-> st, type |-> type, content |-> content, store |-> store]

\* The non-delta base of an ofs-delta, read in place from the pack
readBaseInPlace(packfile, bh, store) ==
    Let(objTypeFromString(PackfileObjectType_toString(bh.type)), LAMBDA t :
    IF t.st # "ok" THEN BaseObj("err", -1, <<>>, store)
    ELSE Let(decompressPackfileObject(packfile, bh.i, bh.length), LAMBDA bc :
         BaseObj(bc.st, t.val, bc.out, store)))

\* The base of an ofs-delta that is itself an ofs-delta, resolved (rec) and
\* read back from the store
readResolvedBase(rec) ==
    IF rec.st # "ok" THEN BaseObj(rec.st, -1, <<>>, rec.store)
    ELSE Let(readObjectFile(rec.hash, rec.store), LAMBDA o :
         BaseObj(o.st, o.type, o.content, rec.store))

\* The end of applyOfsDeltaPackfileObject: the delta applied to the base and
\* the target written
writeDeltaTarget(deltaData, i, base) ==
    IF base.st # "ok" THEN ReadFail(base.st, base.store)
    ELSE Let(applyDelta(deltaData, base.content), LAMBDA target :
         IF target.st # "ok" THEN ReadFail(target.st, base.store)
         ELSE Let(createObjectFile(base.type, target.out, base.store), LAMBDA w :
              ReadObj(i, w.store, w.hash, NilRef)))

MaxDeltaChain == 4   \* nested calls of applyOfsDeltaPackfileObject followed

\* fuel counts the nested calls left; at 0 the call has not returned
\* ("diverge": the recursion of the code has no bound).
RECURSIVE applyOfsDeltaPackfileObject(_, _, _, _, _, _)
applyOfsDeltaPackfileObject(packfile, i, deltaObjStartPos, packfileObjectLength, store, fuel) ==
    IF fuel = 0 THEN ReadFail("diverge", store)
    ELSE
    Let(readVariableOffsetEncoding(packfile, i), LAMBDA ofs :
    IF ofs.st # "ok" THEN ReadFail(ofs.st, store)
    ELSE
    Let(decompressPackfileObject(packfile, ofs.i, packfileObjectLength), LAMBDA dd :
    IF dd.st # "ok" THEN ReadFail(dd.st, store)
    ELSE IF deltaObjStartPos - ofs.val < 0 \/ deltaObjStartPos - ofs.val >= Len(packfile)
    THEN ReadFail("err", store)
    ELSE
    Let(readPackfileObjectHeader(packfile, deltaObjStartPos - ofs.val), LAMBDA bh :
    IF bh.st # "ok" THEN ReadFail(bh.st, store)
    ELSE IF bh.type = PACKFILE_OBJ_OFS_DELTA
    THEN writeDeltaTarget(dd.out, dd.i,
             readResolvedBase(applyOfsDeltaPackfileObject(packfile, bh.i,
                 deltaObjStartPos - ofs.val, bh.length, store, fuel - 1)))
    ELSE IF bh.type = PACKFILE_OBJ_REF_DELTA
    THEN ReadFail("err", store)
    ELSE writeDeltaTarget(dd.out, dd.i, readBaseInPlace(packfile, bh, store)))))

readRefDeltaPackfileObject(packfile, i, packfileObjectLength, store) ==
    IF Len(packfile) - i < OBJECT_HASH_LENGTH_BYTES THEN ReadFail("err", store)
    ELSE Let(decompressPackfileObject(packfile, i + OBJECT_HASH_LENGTH_BYTES,
                                      packfileObjectLength), LAMBDA dd :
         IF dd.st # "ok" THEN ReadFail(dd.st, store)
         ELSE ReadObj(dd.i, store, <<>>,
                  [baseObjHash |-> HexEncode(Slice(packfile, i, i + OBJECT_HASH_LENGTH_BYTES)),
                   deltaData |-> dd.out, nil |-> FALSE]))

\* The end of readPackfileObject for a commit, tree, blob or tag
writePackfileObject(objTypeStr, dd, store) ==
    IF dd.st # "ok" THEN ReadFail(dd.st, store)
    ELSE Let(objTypeFromString(objTypeStr), LAMBDA t :
         IF t.st # "ok" THEN ReadFail("err", store)
         ELSE ReadObj(dd.i, createObjectFile(t.val, dd.out, store).store, <<>>, NilRef))

readPackfileObject(packfile, i, store) ==
    Let(readPackfileObjectHeader(packfile, i), LAMBDA h :
    IF h.st # "ok" THEN ReadFail(h.st, store)
    ELSE IF h.type \in {PACKFILE_OBJ_COMMIT, PACKFILE_OBJ_TREE, PACKFILE_OBJ_BLOB,
                        PACKFILE_OBJ_TAG}
    THEN writePackfileObject(PackfileObjectType_toString(h.type),
             decompressPackfileObject(packfile, h.i, h.length), store)
    ELSE IF h.type = PACKFILE_OBJ_OFS_DELTA
    THEN Let(applyOfsDeltaPackfileObject(packfile, h.i, i, h.length, store, MaxDeltaChain),
             LAMBDA r : [r EXCEPT !.hash = <<>>])
    ELSE IF h.type = PACKFILE_OBJ_REF_DELTA
    THEN readRefDeltaPackfileObject(packfile, h.i, h.length, store)
    ELSE ReadFail("err", store))

\* One ref-delta applied to its base, read from the store
applyRefDelta(refDeltaObj, b, store) ==
    IF b.st # "ok" THEN [st |-> "err", store |-> store]
    ELSE Let(applyDelta(refDeltaObj.deltaData, b.content), LAMBDA target :
         IF target.st # "ok" THEN [st |-> target.st, store |-> store]
         ELSE [st |-> "ok", store |-> createObjectFile(b.type, target.out, store).store])

RECURSIVE applyRefDeltas(_, _)
applyRefDeltas(refDeltaObjs, store) ==
    IF refDeltaObjs = <<>> THEN [st |-> "ok", store |-> store]
    ELSE Let(applyRefDelta(Head(refDeltaObjs),
                           readObjectFile(Head(refDeltaObjs).baseObjHash, store), store),
             LAMBDA r :
             IF r.st # "ok" THEN r ELSE applyRefDeltas(Tail(refDeltaObjs), r.store))

\* The "for range numObjects" loop: left counts the objects still to read.
RECURSIVE readPackfileObjectsLoop(_, _, _, _, _)
readPackfileObjectsLoop(packfile, i, left, refDeltaObjs, store) ==
    IF left = 0
    THEN IF i # Len(packfile) THEN [st |-> "err", store |-> store]
         ELSE applyRefDeltas(refDeltaObjs, store)
    ELSE Let(readPackfileObject(packfile, i, store), LAMBDA r :
         IF r.st # "ok" THEN [st |-> r.st, store |-> r.store]
         ELSE readPackfileObjectsLoop(packfile, r.i, left - 1,
                  IF r.ref.nil THEN refDeltaObjs ELSE Append(refDeltaObjs, r.ref),
                  r.store))

readPackfileObjects(packfile, i, numObjects, store) ==
    readPackfileObjectsLoop(packfile, i, numObjects, <<>>, store)

\* ReadPackfile after the checksum: packfile is without its last 20 bytes
readPackfileBody(packfile, store) ==
    Let(readPackfileHeader(packfile), LAMBDA numObjects :
    IF numObjects.st # "ok" THEN [st |-> "err", store |-> store]
    ELSE readPackfileObjects(packfile, PACKFILE_HEADER_LENGTH, numObjects.val, store))

\* ReadPackfile that trusts the trailing checksum
ReadPackfileUnverified(packfile, store) ==
    IF Len(packfile) < PACKFILE_CHECKSUM_LENGTH THEN [st |-> "err", store |-> store]
    ELSE readPackfileBody(Slice(packfile, 0, Len(packfile) - PACKFILE_CHECKSUM_LENGTH), store)

\* ReadPackfile: the result, and the store as the call left it
ReadPackfile(packfile, store) ==
    IF verifyPackfileChecksum(packfile) # "ok" THEN [st |-> "err", store |-> store]
    ELSE readPackfileBody(Slice(packfile, 0, Len(packfile) - PACKFILE_CHECKSUM_LENGTH), store)

-----------------------------------------------------------------------------
(* smart_http_protocol.go: writing a pack *)

packfileObjTypeFromString(str) ==
    IF str = "commit" THEN [st |-> "ok", val |-> PACKFILE_OBJ_COMMIT]
    ELSE IF str = "tree" THEN [st |-> "ok", val |-> PACKFILE_OBJ_TREE]
    ELSE IF str = "blob" THEN [st |-> "ok", val |-> PACKFILE_OBJ_BLOB]
    ELSE [st |-> "err", val |-> -1]

\* The "for size > 0" loop of encodeVariableLengthSize
RECURSIVE encodeSizeTail(_)
encodeSizeTail(size) ==
    IF size > 0
    THEN <<(size % 128) + (IF size \div 128 > 0 THEN 128 ELSE 0)>>
             \o encodeSizeTail(size \div 128)
    ELSE <<>>

encodeVariableLengthSize(size, shift) ==
    <<(size % (2 ^ shift)) + (IF size \div (2 ^ shift) > 0 THEN 128 ELSE 0)>>
        \o encodeSizeTail(size \div (2 ^ shift))

encodePackfileObjectHeader(packfileObjType, size) ==
    Let(encodeVariableLengthSize(size, 4), LAMBDA encodedSize :
    IF Len(encodedSize) = 0 THEN [st |-> "err", out |-> <<>>]
    ELSE Ok(<<encodedSize[1] + packfileObjType * 16>> \o Tail(encodedSize)))

encodePackfileObject(objHash, store) ==
    Let(readObjectFile(objHash, store), LAMBDA o :
    IF o.st # "ok" THEN Err
    ELSE Let(packfileObjTypeFromString(ObjectType_toString(o.type)), LAMBDA t :
         IF t.st # "ok" THEN Err
         ELSE IF Len(o.content) = 0 THEN Err
         ELSE Let(encodePackfileObjectHeader(t.val, Len(o.content)), LAMBDA header :
              IF header.st # "ok" THEN Err
              ELSE Ok(header.out \o zlibCompressBytes(o.content)))))

RECURSIVE encodePackfileObjects(_, _, _)
encodePackfileObjects(objHashes, store, packfile) ==
    IF objHashes = <<>> THEN Ok(packfile)
    ELSE Let(encodePackfileObject(Head(objHashes), store), LAMBDA e :
         IF e.st # "ok" THEN Err
         ELSE encodePackfileObjects(Tail(objHashes), store, packfile \o e.out))

CreatePackfile(objHashes, store) ==
    IF Len(objHashes) = 0 THEN Err
    ELSE Let(encodePackfileObjects(objHashes, store,
                 PACKFILE_SIGNATURE \o AppendUint32(PACKFILE_VERSION_NUMBER)
                     \o AppendUint32(Len(objHashes))), LAMBDA body :
         IF body.st # "ok" THEN Err
         ELSE Ok(body.out \o Sha1Sum(body.out)))

-----------------------------------------------------------------------------
(* strings, path/filepath and os as the repository code uses them *)

Min(K) == CHOOSE k \in K : \A j \in K : k <= j
Max(K) == CHOOSE k \in K : \A j \in K : k >= j

\* strings.TrimSpace, HasPrefix, TrimPrefix
Whitespace == {9, 10, 11, 12, 13, 32}
TrimTo(s, K) == IF K = {} THEN <<>> ELSE SubSeq(s, Min(K), Max(K))
TrimSpace(s) == TrimTo(s, {k \in 1..Len(s) : s[k] \notin Whitespace})
HasPrefix(s, prefix) == Len(s) >= Len(prefix) /\ SubSeq(s, 1, Len(prefix)) = prefix
TrimPrefix(s, prefix) ==
    IF HasPrefix(s, prefix) THEN SubSeq(s, Len(prefix) + 1, Len(s)) ELSE s

\* strings.Split(s, sep) for a one-byte separator: P is where it occurs
Positions(s, c) == {k \in 1..Len(s) : s[k] = c}
Nth(P, j) == CHOOSE p \in P : Cardinality({q \in P : q < p}) = j - 1
SplitAt(s, P) ==
    [j \in 1..(Cardinality(P) + 1) |->
        SubSeq(s, IF j = 1 THEN 1 ELSE Nth(P, j - 1) + 1,
                  IF j = Cardinality(P) + 1 THEN Len(s) ELSE Nth(P, j) - 1)]
Split(s, c) == SplitAt(s, Positions(s, c))

\* filepath.Join and filepath.Dir on paths under .git (<<>> is .git itself);
\* 47 is '/'
Join(dir, name) == IF dir = <<>> THEN name ELSE dir \o <<47>> \o name
Dir(path) ==
    IF Positions(path, 47) = {} THEN <<>>
    ELSE SubSeq(path, 1, Max(Positions(path, 47)) - 1)
Ancestors(dir) == {<<>>, dir} \cup {SubSeq(dir, 1, k - 1) : k \in Positions(dir, 47)}

\* The part of the file system under .git that holds HEAD and the refs:
\* fs.files is the content of each file and fs.dirs the directories.
FilePut(fileMap, path, data) ==
    [x \in (DOMAIN fileMap) \cup {path} |-> IF x = path THEN data ELSE fileMap[x]]

MapPut(map, key, val) ==
    [x \in (DOMAIN map) \cup {key} |-> IF x = key THEN val ELSE map[x]]
\* os.ReadFile: "notexist" is the error os.IsNotExist recognises
ReadFile(fs, path) ==
    IF path \in DOMAIN fs.files THEN [st |-> "ok", data |-> fs.files[path]]
    ELSE IF path \in fs.dirs THEN [st |-> "err", data |-> <<>>]
    ELSE [st |-> "notexist", data |-> <<>>]

\* os.MkdirAll fails when a component of the path is a file
MkdirAll(fs, dir) ==
    IF \E a \in Ancestors(dir) : a \in DOMAIN fs.files
    THEN [st |-> "err", fs |-> fs]
    ELSE [st |-> "ok", fs |-> [fs EXCEPT !.dirs = @ \cup Ancestors(dir)]]

\* os.WriteFile creates or truncates the file; its directory must exist
WriteFile(fs, path, data) ==
    IF Dir(path) \notin fs.dirs \/ path \in fs.dirs
    THEN [st |-> "err", fs |-> fs]
    ELSE [st |-> "ok", fs |-> [fs EXCEPT !.files = FilePut(@, path, data)]]

\* os.Stat succeeds
Exists(fs, path) == path \in DOMAIN fs.files \/ path \in fs.dirs

-----------------------------------------------------------------------------
(* The ref store: HEAD and the branch refs *)

\* "HEAD"
HEAD_NAME == <<72, 69, 65, 68>>
\* "ref: "
REF_PREFIX == <<114, 101, 102, 58, 32>>
\* "ref: refs/heads/"
REF_HEADS_PREFIX ==
    <<114, 101, 102, 58, 32, 114, 101, 102, 115, 47, 104, 101, 97, 100, 115, 47>>
\* "ref: refs/remotes/origin/"
REF_REMOTES_PREFIX ==
    <<114, 101, 102, 58, 32, 114, 101, 102, 115, 47, 114, 101, 109, 111, 116, 101,
      115, 47, 111, 114, 105, 103, 105, 110, 47>>
\* "objects", "refs", "refs/heads", "refs/remotes", "refs/remotes/origin"
OBJECTS_DIR == <<111, 98, 106, 101, 99, 116, 115>>
REFS_DIR == <<114, 101, 102, 115>>
HEADS_DIR == <<114, 101, 102, 115, 47, 104, 101, 97, 100, 115>>
REMOTES_DIR == <<114, 101, 102, 115, 47, 114, 101, 109, 111, 116, 101, 115>>
ORIGIN_DIR ==
    <<114, 101, 102, 115, 47, 114, 101, 109, 111, 116, 101, 115, 47, 111, 114, 105,
      103, 105, 110>>
\* "ref: refs/heads/master\n"
INIT_HEAD ==
    <<114, 101, 102, 58, 32, 114, 101, 102, 115, 47, 104, 101, 97, 100, 115, 47,
      109, 97, 115, 116, 101, 114, 10>>
\* "master", "dev"
MASTER == <<109, 97, 115, 116, 101, 114>>
DEV == <<100, 101, 118>>

\* What resolving a ref returns: (hash, exists, err)
RefRes(st, exists, hash) == [st |-> st, exists |-> exists, hash |-> hash]
FsRes(st, fs) == [st |-> st, fs |-> fs]

ResolveHead(remote, fs) ==
    Let(ReadFile(fs, IF remote THEN Join(ORIGIN_DIR, HEAD_NAME) ELSE HEAD_NAME),
        LAMBDA head :
    IF head.st # "ok" THEN RefRes("err", FALSE, <<>>)
    ELSE Let(TrimSpace(head.data), LAMBDA headContent :
         IF HasPrefix(headContent, REF_PREFIX)
         THEN Let(ReadFile(fs, TrimPrefix(headContent, REF_PREFIX)), LAMBDA ref :
              IF ref.st = "notexist" THEN RefRes("ok", FALSE, <<>>)
              ELSE IF ref.st # "ok" THEN RefRes("err", FALSE, <<>>)
              ELSE RefRes("ok", TRUE, TrimSpace(ref.data)))
         ELSE RefRes("ok", TRUE, headContent)))

UpdateHeadWithBranchRef(branchName, remote, fs) ==
    Let(WriteFile(fs, IF remote THEN Join(ORIGIN_DIR, HEAD_NAME) ELSE HEAD_NAME,
                  (IF remote THEN REF_REMOTES_PREFIX ELSE REF_HEADS_PREFIX) \o branchName),
        LAMBDA w : FsRes(w.st, w.fs))

ResolveBranchRef(branchName, remote, fs) ==
    Let(ReadFile(fs, Join(IF remote THEN ORIGIN_DIR ELSE HEADS_DIR, branchName)),
        LAMBDA ref :
    IF ref.st = "notexist" THEN RefRes("ok", FALSE, <<>>)
    ELSE IF ref.st # "ok" THEN RefRes("err", FALSE, <<>>)
    ELSE RefRes("ok", TRUE, TrimSpace(ref.data)))

\* MkdirAll of the ref's directory, then the hash written as it is
writeRefFile(path, hash, fs) ==
    Let(MkdirAll(fs, Dir(path)), LAMBDA m :
    IF m.st # "ok" THEN FsRes("err", fs)
    ELSE WriteFile(m.fs, path, hash))

UpdateBranchRef(branchName, commitHash, remote, fs) ==
    writeRefFile(Join(IF remote THEN ORIGIN_DIR ELSE HEADS_DIR, branchName), commitHash, fs)

\* ResolveRef that returns the content of the ref file as it is read
ResolveRefUntrimmed(refName, fs) ==
    IF refName = HEAD_NAME
    THEN Let(ReadFile(fs, HEAD_NAME), LAMBDA head :
         IF head.st # "ok" THEN RefRes("err", FALSE, <<>>)
         ELSE Let(TrimSpace(head.data), LAMBDA headStr :
              IF HasPrefix(headStr, REF_PREFIX)
              THEN Let(ReadFile(fs, TrimPrefix(headStr, REF_PREFIX)), LAMBDA ref :
                   IF ref.st = "notexist" THEN RefRes("ok", FALSE, <<>>)
                   ELSE IF ref.st # "ok" THEN RefRes("err", FALSE, <<>>)
                   ELSE RefRes("ok", TRUE, ref.data))
              ELSE RefRes("ok", TRUE, headStr)))
    ELSE ResolveBranchRef(refName, FALSE, fs)

ResolveRef(refName, fs) ==
    IF refName = HEAD_NAME
    THEN Let(ReadFile(fs, HEAD_NAME), LAMBDA head :
         IF head.st # "ok" THEN RefRes("err", FALSE, <<>>)
         ELSE Let(TrimSpace(head.data), LAMBDA headStr :
              IF HasPrefix(headStr, REF_PREFIX)
              THEN Let(ReadFile(fs, TrimPrefix(headStr, REF_PREFIX)), LAMBDA ref :
                   IF ref.st = "notexist" THEN RefRes("ok", FALSE, <<>>)
                   ELSE IF ref.st # "ok" THEN RefRes("err", FALSE, <<>>)
                   ELSE RefRes("ok", TRUE, TrimSpace(ref.data)))
              ELSE RefRes("ok", TRUE, headStr)))
    ELSE ResolveBranchRef(refName, FALSE, fs)

UpdateRef(refName, hash, fs) ==
    IF refName = HEAD_NAME
    THEN Let(ReadFile(fs, HEAD_NAME), LAMBDA head :
         IF head.st # "ok" THEN FsRes("err", fs)
         ELSE Let(TrimSpace(head.data), LAMBDA headStr :
              IF HasPrefix(headStr, REF_PREFIX)
              THEN writeRefFile(TrimPrefix(headStr, REF_PREFIX), hash, fs)
              ELSE WriteFile(fs, HEAD_NAME, hash)))
    ELSE writeRefFile(Join(HEADS_DIR, refName), hash, fs)

-----------------------------------------------------------------------------
(* repo.go *)

RECURSIVE mkdirs(_, _)
mkdirs(fs, list) ==
    IF list = <<>> THEN FsRes("ok", fs)
    ELSE Let(MkdirAll(fs, Head(list)), LAMBDA m :
         IF m.st # "ok" THEN FsRes("err", fs) ELSE mkdirs(m.fs, Tail(list)))

initRepo(fs) ==
    Let(mkdirs(fs, <<<<>>, OBJECTS_DIR, REFS_DIR, HEADS_DIR, REMOTES_DIR>>), LAMBDA m :
    IF m.st # "ok" THEN FsRes("err", m.fs)
    ELSE WriteFile(m.fs, HEAD_NAME, INIT_HEAD))

\* headContent[:7] of a HEAD shorter than 7 bytes is out of range
getCurrentBranch(fs) ==
    Let(ReadFile(fs, HEAD_NAME), LAMBDA head :
    IF head.st # "ok" THEN [st |-> "err", name |-> <<>>]
    ELSE IF HasPrefix(head.data, REF_HEADS_PREFIX)
    THEN [st |-> "ok", name |-> TrimSpace(TrimPrefix(head.data, REF_HEADS_PREFIX))]
    ELSE IF Len(head.data) < 7 THEN [st |-> "panic", name |-> <<>>]
    ELSE [st |-> "err", name |-> <<>>])

-----------------------------------------------------------------------------
(* objects.go: trees and commits *)

REGULAR_FILE_MODE    == 100644
EXECUTABLE_FILE_MODE == 100755
SYMBOLIC_LINK_MODE   == 120000
DIRECTORY_MODE       == 40000

VALID_MODES == {REGULAR_FILE_MODE, EXECUTABLE_FILE_MODE, SYMBOLIC_LINK_MODE, DIRECTORY_MODE}

\* len 40 and the regexp ^[a-z0-9]*$
isValidObjectHash(objHash) ==
    /\ Len(objHash) = OBJECT_HASH_LENGTH_STRING
    /\ \A k \in 1..Len(objHash) : objHash[k] \in (97..122) \cup (48..57)

isValidMode(mode) == mode \in VALID_MODES

getObjectTypeFromMode(mode) == IF mode = 40000 THEN Tree ELSE Blob

\* hex.DecodeString
HexVal(c) ==
    IF c \in 48..57 THEN c - 48
    ELSE IF c \in 97..102 THEN c - 87
    ELSE IF c \in 65..70 THEN c - 55
    ELSE -1
HexDecode(s) ==
    IF Len(s) % 2 # 0 \/ \E k \in 1..Len(s) : HexVal(s[k]) = -1 THEN Err
    ELSE Ok([k \in 1..(Len(s) \div 2) |-> HexVal(s[2 * k - 1]) * 16 + HexVal(s[2 * k])])

readBlobObjectFile(objHash, store) ==
    Let(readObjectFile(objHash, store), LAMBDA o :
    IF o.st # "ok" THEN Err
    ELSE IF o.type # Blob THEN Err
    ELSE Ok(o.content))

TreeEntry(hash, mode, name, objType) ==
    [hash |-> hash, mode |-> mode, name |-> name, objType |-> objType]
TreeErr == [st |-> "err", entries |-> <<>>]

parseTreeObjectEntry(entryHeader, entryHash) ==
    Let(Split(entryHeader, 32), LAMBDA entryHeaderParts :
    IF Len(entryHeaderParts) # 2 THEN [st |-> "err", entry |-> <<>>]
    ELSE Let(Atoi(entryHeaderParts[1]), LAMBDA mode :
         IF mode.st # "ok" THEN [st |-> "err", entry |-> <<>>]
         ELSE IF ~isValidMode(mode.val) THEN [st |-> "err", entry |-> <<>>]
         ELSE IF ~isValidObjectHash(entryHash) THEN [st |-> "err", entry |-> <<>>]
         ELSE [st |-> "ok",
               entry |-> TreeEntry(entryHash, mode.val, entryHeaderParts[2],
                                   getObjectTypeFromMode(mode.val))]))

\* One entry of the "for i < len(content)" loop: nul is the position of the
\* NUL that ends the entry header
readTreeEntry(content, i, nul) ==
    IF nul = -1 THEN [st |-> "err", entry |-> <<>>, i |-> -1]
    ELSE IF nul + 1 + OBJECT_HASH_LENGTH_BYTES > Len(content)
    THEN [st |-> "err", entry |-> <<>>, i |-> -1]
    ELSE Let(parseTreeObjectEntry(Slice(content, i, nul),
                 HexEncode(Slice(content, nul + 1, nul + 1 + OBJECT_HASH_LENGTH_BYTES))),
             LAMBDA e : [st |-> e.st, entry |-> e.entry,
                         i |-> nul + 1 + OBJECT_HASH_LENGTH_BYTES])

RECURSIVE readTreeEntries(_, _, _)
readTreeEntries(content, i, entries) ==
    IF i >= Len(content) THEN [st |-> "ok", entries |-> entries]
    ELSE Let(readTreeEntry(content, i, IndexByteFrom(content, 0, i)), LAMBDA e :
         IF e.st # "ok" THEN TreeErr
         ELSE readTreeEntries(content, e.i, Append(entries, e.entry)))

\* a < b, byte-wise
Less(a, b) ==
    \E k \in 1..Len(b) :
        /\ k - 1 <= Len(a)
        /\ SubSeq(a, 1, k - 1) = SubSeq(b, 1, k - 1)
        /\ (k = Len(a) + 1 \/ a[k] < b[k])

\* sort.Slice by the key of each element (keys are distinct)
SortBy(list, Key(_)) ==
    [j \in 1..Len(list) |->
        list[CHOOSE k \in 1..Len(list) :
                 Cardinality({m \in 1..Len(list) : Less(Key(list[m]), Key(list[k]))}) = j - 1]]

EntryName(e) == e.name

readTreeObjectFile(objHash, store) ==
    Let(readObjectFile(objHash, store), LAMBDA o :
    IF o.st # "ok" THEN TreeErr
    ELSE IF o.type # Tree THEN TreeErr
    ELSE Let(readTreeEntries(o.content, 0, <<>>), LAMBDA r :
         IF r.st # "ok" THEN TreeErr
         ELSE [st |-> "ok", entries |-> SortBy(r.entries, EntryName)]))

\* The content of a tree object: "<mode> <name>\0" and the 20 hash bytes of
\* each entry
RECURSIVE treeContent(_)
treeContent(entries) ==
    IF entries = <<>> THEN Ok(<<>>)
    ELSE Let(HexDecode(Head(entries).hash), LAMBDA hashBytes :
         IF hashBytes.st # "ok" THEN Err
         ELSE Let(treeContent(Tail(entries)), LAMBDA rest :
              IF rest.st # "ok" THEN Err
              ELSE Ok(Itoa(Head(entries).mode) \o <<32>> \o Head(entries).name \o <<0>>
                          \o hashBytes.out \o rest.out)))

\* "tree ", "parent", "parent ", "author ", "committer "
TREE_SP == <<116, 114, 101, 101, 32>>
PARENT == <<112, 97, 114, 101, 110, 116>>
PARENT_SP == <<112, 97, 114, 101, 110, 116, 32>>
AUTHOR_SP == <<97, 117, 116, 104, 111, 114, 32>>
COMMITTER_SP == <<99, 111, 109, 109, 105, 116, 116, 101, 114, 32>>
\* "%s <%s> %d %s" of the current user and time.Now():
\* "Ada Byron <ada@mygit.com> 1700000000 +0000"
USER_STAMP ==
    <<65, 100, 97, 32, 66, 121, 114, 111, 110, 32, 60, 97, 100, 97, 64, 109, 121,
      103, 105, 116, 46, 99, 111, 109, 62, 32, 49, 55, 48, 48, 48, 48, 48, 48, 48,
      48, 32, 43, 48, 48, 48, 48>>

CommitErr(st) == [st |-> st, treeHash |-> <<>>, parentCommitHashes |-> <<>>]

\* "ok", "err" (Atoi fails) or "panic" (parts[4], parts[5] or
\* parts[3][1:len-1] out of range)
parseCommitUser(s) ==
    Let(Split(s, 32), LAMBDA parts :
    IF Len(parts) < 5 THEN "panic"
    ELSE IF Atoi(parts[5]).st # "ok" THEN "err"
    ELSE IF Len(parts[4]) < 2 \/ Len(parts) < 6 THEN "panic"
    ELSE "ok")

\* The "for strings.HasPrefix(lines[i], "parent")" loop; lines[i] is read
\* unchecked
RECURSIVE readParents(_, _, _)
readParents(lines, i, parentCommitHashes) ==
    IF i >= Len(lines) THEN [st |-> "panic", i |-> -1, parents |-> <<>>]
    ELSE IF HasPrefix(At(lines, i), PARENT)
    THEN Let(Split(At(lines, i), 32), LAMBDA parts :
         IF Len(parts) < 2 THEN [st |-> "panic", i |-> -1, parents |-> <<>>]
         ELSE readParents(lines, i + 1, Append(parentCommitHashes, parts[2])))
    ELSE [st |-> "ok", i |-> i, parents |-> parentCommitHashes]

\* The author and committer lines and the message, from line i on
parseCommitTail(lines, i, treeHash, parentCommitHashes) ==
    Let(parseCommitUser(At(lines, i)), LAMBDA author :
    IF author # "ok" THEN CommitErr(author)
    ELSE IF i + 1 >= Len(lines) THEN CommitErr("panic")
    ELSE Let(parseCommitUser(At(lines, i + 1)), LAMBDA committer :
         IF committer # "ok" THEN CommitErr(committer)
         ELSE IF i + 3 > Len(lines) THEN CommitErr("panic")
         ELSE [st |-> "ok", treeHash |-> treeHash,
               parentCommitHashes |-> parentCommitHashes]))

parseCommitLines(lines, firstLine) ==
    IF Len(firstLine) < 2 THEN CommitErr("panic")
    ELSE Let(readParents(lines, 1, <<>>), LAMBDA p :
         IF p.st # "ok" THEN CommitErr(p.st)
         ELSE parseCommitTail(lines, p.i, firstLine[2], p.parents))

readCommitObjectFile(objHash, store) ==
    Let(readObjectFile(objHash, store), LAMBDA o :
    IF o.st # "ok" THEN CommitErr("err")
    ELSE IF o.type # Commit THEN CommitErr("err")
    ELSE Let(Split(o.content, 10), LAMBDA lines :
         parseCommitLines(lines, Split(lines[1], 32))))

RECURSIVE parentLines(_)
parentLines(parentCommitHashes) ==
    IF parentCommitHashes = <<>> THEN <<>>
    ELSE PARENT_SP \o Head(parentCommitHashes) \o <<10>>
             \o parentLines(Tail(parentCommitHashes))

createCommitObjectFromTree(treeHash, parentCommitHashes, commitMessage, store) ==
    createObjectFile(Commit,
        TREE_SP \o treeHash \o <<10>> \o parentLines(parentCommitHashes)
            \o AUTHOR_SP \o USER_STAMP \o <<10>>
            \o COMMITTER_SP \o USER_STAMP \o <<10>>
            \o <<10>> \o commitMessage,
        store)

-----------------------------------------------------------------------------
(* index.go: the staging index; checkout.go *)

\* The working tree maps the path of each file to the file: its content, the
\* permission bits of its mode and whether it is a symbolic link.
PERM_0644 == 420
RegularFile(content) == [content |-> content, perm |-> PERM_0644, symlink |-> FALSE]
\* mode & 0111 != 0: one of the three execute bits is set
AnyExecBit(perm) ==
    perm % 2 = 1 \/ (perm \div 8) % 2 = 1 \/ (perm \div 64) % 2 = 1
\* The git mode of a file of the working tree
getGitModeFromFileMode(file) ==
    IF file.symlink THEN SYMBOLIC_LINK_MODE
    ELSE IF AnyExecBit(file.perm) THEN EXECUTABLE_FILE_MODE
    ELSE REGULAR_FILE_MODE

\* os.Stat of a file of the working tree: what createIndexEntry copies of it
FileStat(path, content) ==
    [cTimeSec |-> 1, cTimeNanoSec |-> 2, mTimeSec |-> 3, mTimeNanoSec |-> 4,
     dev |-> 5, ino |-> 6 + Len(path), uid |-> 7, gid |-> 8, size |-> Len(content)]
IndexEntry(stat, mode, sha1, path) ==
    [cTimeSec |-> stat.cTimeSec, cTimeNanoSec |-> stat.cTimeNanoSec,
     mTimeSec |-> stat.mTimeSec, mTimeNanoSec |-> stat.mTimeNanoSec,
     dev |-> stat.dev, ino |-> stat.ino, mode |-> mode, uid |-> stat.uid,
     gid |-> stat.gid, fileSize |-> stat.size, sha1 |-> sha1, flags |-> 0,
     path |-> path]
EntryPath(e) == e.path
NoFiles == << >>

IndexErr(store) == [st |-> "err", entry |-> <<>>, store |-> store]

\* os.Stat of the file, the blob written, the hash decoded
createIndexEntry(path, wfiles, store) ==
    IF path \notin DOMAIN wfiles THEN IndexErr(store)
    ELSE Let(createObjectFile(Blob, wfiles[path].content, store), LAMBDA blobObj :
         IF blobObj.st # "ok" THEN IndexErr(store)
         ELSE Let(HexDecode(blobObj.hash), LAMBDA objHashBytes :
              IF objHashBytes.st # "ok" THEN IndexErr(blobObj.store)
              ELSE [st |-> "ok",
                    entry |-> IndexEntry(FileStat(path, wfiles[path].content),
                                         getGitModeFromFileMode(wfiles[path]),
                                         objHashBytes.out, path),
                    store |-> blobObj.store]))

\* The "for path := range pathsSet" loop
RECURSIVE createIndexEntries(_, _, _, _)
createIndexEntries(pathsSet, entries, wfiles, store) ==
    IF pathsSet = {} THEN [st |-> "ok", index |-> entries, store |-> store]
    ELSE Let(CHOOSE p \in pathsSet : TRUE, LAMBDA path :
         Let(createIndexEntry(path, wfiles, store), LAMBDA e :
         IF e.st # "ok" THEN [st |-> "err", index |-> <<>>, store |-> e.store]
         ELSE createIndexEntries(pathsSet \ {path}, Append(entries, e.entry),
                                 wfiles, e.store)))

\* writeIndex sorts the entries by path
AddFilesToIndex(pathsSet, currIndexEntries, wfiles, store) ==
    Let(createIndexEntries(pathsSet,
            SelectSeq(currIndexEntries, LAMBDA entry : entry.path \notin pathsSet),
            wfiles, store),
        LAMBDA r :
    IF r.st # "ok" THEN [st |-> "err", index |-> currIndexEntries, store |-> r.store]
    ELSE [st |-> "ok", index |-> SortBy(r.index, EntryPath), store |-> r.store])

\* index_from_working_tree: the index becomes one entry for each file of the
\* working tree
CreateIndexFromWorkingTree(wfiles, store) ==
    Let(createIndexEntries(DOMAIN wfiles, <<>>, wfiles, store), LAMBDA r :
    IF r.st # "ok" THEN r
    ELSE [st |-> "ok", index |-> SortBy(r.index, EntryPath), store |-> r.store])

\* tree_from_index: with every file in the root, one tree of the entries
CreateTreeObjectFromIndex(indexEntries, store) ==
    Let(treeContent([k \in 1..Len(indexEntries) |->
            TreeEntry(HexEncode(indexEntries[k].sha1), indexEntries[k].mode,
                      indexEntries[k].path, Blob)]),
        LAMBDA t :
    IF t.st # "ok" THEN [st |-> "err", hash |-> <<>>, store |-> store]
    ELSE createObjectFile(Tree, t.out, store))

-----------------------------------------------------------------------------
(* The index file .git/index *)

INDEX_HEADER_LENGTH   == 12
INDEX_CHECKSUM_LENGTH == 20
INDEX_VERSION         == 2
INDEX_ENTRY_LENGTH    == 62   \* an entry up to its path
\* "DIRC", "index"
INDEX_SIGNATURE == <<68, 73, 82, 67>>
INDEX_NAME == <<105, 110, 100, 101, 120>>

Uint16(b) == b[1] * 256 + b[2]
AppendUint16(n) == <<(n \div 256) % 256, n % 256>>

IndexRes(st, entries) == [st |-> st, entries |-> entries]

\* What writeIndex writes for one entry
indexEntryBytes(entry) ==
    AppendUint32(entry.cTimeSec) \o AppendUint32(entry.cTimeNanoSec)
        \o AppendUint32(entry.mTimeSec) \o AppendUint32(entry.mTimeNanoSec)
        \o AppendUint32(entry.dev) \o AppendUint32(entry.ino)
        \o AppendUint32(entry.mode) \o AppendUint32(entry.uid)
        \o AppendUint32(entry.gid) \o AppendUint32(entry.fileSize)
        \o entry.sha1 \o AppendUint16(entry.flags) \o entry.path \o <<0>>

\* The header and the entries sorted by path
indexData(entries) ==
    INDEX_SIGNATURE \o AppendUint32(INDEX_VERSION) \o AppendUint32(Len(entries))
        \o Concat([k \in 1..Len(entries) |-> indexEntryBytes(entries[k])])

\* writeIndex that writes the entries in the order given
writeIndexUnsorted(entries, fs) ==
    Let(indexData(entries), LAMBDA data :
    WriteFile(fs, INDEX_NAME, data \o Sha1Sum(data)))

\* os.Create of the index file, the data, then the checksum
writeIndex(entries, fs) ==
    Let(indexData(SortBy(entries, EntryPath)), LAMBDA data :
    WriteFile(fs, INDEX_NAME, data \o Sha1Sum(data)))

verifyIndexChecksum(index) ==
    IF Len(index) < INDEX_CHECKSUM_LENGTH THEN "err"
    ELSE IF Slice(index, Len(index) - INDEX_CHECKSUM_LENGTH, Len(index))
                # Sha1Sum(Slice(index, 0, Len(index) - INDEX_CHECKSUM_LENGTH))
    THEN "err"
    ELSE "ok"

readIndexHeader(index) ==
    IF Len(index) < INDEX_HEADER_LENGTH THEN [st |-> "err", numEntries |-> -1]
    ELSE IF Slice(index, 0, 4) # INDEX_SIGNATURE THEN [st |-> "err", numEntries |-> -1]
    ELSE IF Uint32(Slice(index, 4, 8)) # INDEX_VERSION THEN [st |-> "err", numEntries |-> -1]
    ELSE [st |-> "ok", numEntries |-> Uint32(Slice(index, 8, 12))]

\* The entry at i and where the next one starts
readIndexEntry(index, i) ==
    IF i + INDEX_ENTRY_LENGTH > Len(index) THEN [st |-> "err", entry |-> <<>>, next |-> i]
    ELSE Let(IF IndexByteFrom(index, 0, i + INDEX_ENTRY_LENGTH) = -1 THEN Len(index)
             ELSE IndexByteFrom(index, 0, i + INDEX_ENTRY_LENGTH), LAMBDA pathEndPos :
         [st |-> "ok",
          entry |-> [cTimeSec |-> Uint32(Slice(index, i, i + 4)),
                     cTimeNanoSec |-> Uint32(Slice(index, i + 4, i + 8)),
                     mTimeSec |-> Uint32(Slice(index, i + 8, i + 12)),
                     mTimeNanoSec |-> Uint32(Slice(index, i + 12, i + 16)),
                     dev |-> Uint32(Slice(index, i + 16, i + 20)),
                     ino |-> Uint32(Slice(index, i + 20, i + 24)),
                     mode |-> Uint32(Slice(index, i + 24, i + 28)),
                     uid |-> Uint32(Slice(index, i + 28, i + 32)),
                     gid |-> Uint32(Slice(index, i + 32, i + 36)),
                     fileSize |-> Uint32(Slice(index, i + 36, i + 40)),
                     sha1 |-> Slice(index, i + 40, i + 40 + OBJECT_HASH_LENGTH_BYTES),
                     flags |-> Uint16(Slice(index, i + 60, i + 62)),
                     path |-> Slice(index, i + INDEX_ENTRY_LENGTH, pathEndPos)],
          next |-> pathEndPos + 1])

RECURSIVE readIndexEntriesLoop(_, _, _, _)
readIndexEntriesLoop(index, i, numEntries, entries) ==
    IF numEntries = 0
    THEN IF i # Len(index) THEN IndexRes("err", <<>>) ELSE IndexRes("ok", entries)
    ELSE Let(readIndexEntry(index, i), LAMBDA e :
         IF e.st # "ok" THEN IndexRes("err", <<>>)
         ELSE readIndexEntriesLoop(index, e.next, numEntries - 1, Append(entries, e.entry)))
readIndexEntries(index, i, numEntries) == readIndexEntriesLoop(index, i, numEntries, <<>>)

\* ReadIndex that takes a file too short for a checksum for no index file
ReadIndexShortAsEmpty(fs) ==
    Let(ReadFile(fs, INDEX_NAME), LAMBDA index :
    IF index.st = "notexist" THEN IndexRes("ok", <<>>)
    ELSE IF index.st # "ok" THEN IndexRes("err", <<>>)
    ELSE IF Len(index.data) < INDEX_CHECKSUM_LENGTH THEN IndexRes("ok", <<>>)
    ELSE IF verifyIndexChecksum(index.data) # "ok" THEN IndexRes("err", <<>>)
    ELSE Let(Slice(index.data, 0, Len(index.data) - INDEX_CHECKSUM_LENGTH), LAMBDA body :
         Let(readIndexHeader(body), LAMBDA header :
         IF header.st # "ok" THEN IndexRes("err", <<>>)
         ELSE readIndexEntries(body, INDEX_HEADER_LENGTH, header.numEntries))))

\* ReadIndex: no index file is an empty index
ReadIndex(fs) ==
    Let(ReadFile(fs, INDEX_NAME), LAMBDA index :
    IF index.st = "notexist" THEN IndexRes("ok", <<>>)
    ELSE IF index.st # "ok" THEN IndexRes("err", <<>>)
    ELSE IF verifyIndexChecksum(index.data) # "ok" THEN IndexRes("err", <<>>)
    ELSE Let(Slice(index.data, 0, Len(index.data) - INDEX_CHECKSUM_LENGTH), LAMBDA body :
         Let(readIndexHeader(body), LAMBDA header :
         IF header.st # "ok" THEN IndexRes("err", <<>>)
         ELSE readIndexEntries(body, INDEX_HEADER_LENGTH, header.numEntries))))

\* AddFilesToIndex from ReadIndex to writeIndex
IndexFileRes(st, fs, store) == [st |-> st, fs |-> fs, store |-> store]
AddFilesToIndexFile(pathsSet, fs, wfiles, store) ==
    Let(ReadIndex(fs), LAMBDA currIndexEntries :
    IF currIndexEntries.st # "ok" THEN IndexFileRes("err", fs, store)
    ELSE Let(createIndexEntries(pathsSet,
                 SelectSeq(currIndexEntries.entries,
                           LAMBDA entry : entry.path \notin pathsSet),
                 wfiles, store),
             LAMBDA newIndexEntries :
         IF newIndexEntries.st # "ok" THEN IndexFileRes("err", fs, newIndexEntries.store)
         ELSE Let(writeIndex(newIndexEntries.index, fs), LAMBDA w :
              IndexFileRes(w.st, w.fs, newIndexEntries.store))))

\* RemoveFilesFromIndex that keeps no entry
RemoveAllFromIndex(pathsSet, fs) ==
    Let(ReadIndex(fs), LAMBDA currIndexEntries :
    IF currIndexEntries.st # "ok" THEN FsRes("err", fs)
    ELSE writeIndex(<<>>, fs))

RemoveFilesFromIndex(pathsSet, fs) ==
    Let(ReadIndex(fs), LAMBDA currIndexEntries :
    IF currIndexEntries.st # "ok" THEN FsRes("err", fs)
    ELSE writeIndex(SelectSeq(currIndexEntries.entries,
                              LAMBDA entry : entry.path \notin pathsSet), fs))

-----------------------------------------------------------------------------
(* status.go *)

\* ".git"
DOT_GIT == <<46, 103, 105, 116>>

\* The walk of the repository directory: every file whose path relative to
\* it does not start with ".git"
getWorkingTreeFilePaths(wfiles) == {path \in DOMAIN wfiles : ~HasPrefix(path, DOT_GIT)}

createBlobObjectFromFile(filePath, wfiles, store) ==
    IF filePath \notin DOMAIN wfiles THEN [st |-> "err", hash |-> <<>>, store |-> store]
    ELSE createObjectFile(Blob, wfiles[filePath].content, store)

\* path -> hash of every blob under a tree
RECURSIVE populateEntries(_, _, _, _)
populateEntries(treeEntries, entries, pathPrefix, store) ==
    IF entries = <<>> THEN [st |-> "ok", map |-> treeEntries]
    ELSE Let(Head(entries), LAMBDA entry :
         IF entry.objType = Tree
         THEN Let(readTreeObjectFile(entry.hash, store), LAMBDA subTree :
              IF subTree.st # "ok" THEN [st |-> "err", map |-> treeEntries]
              ELSE Let(populateEntries(treeEntries, subTree.entries,
                                       Join(pathPrefix, entry.name), store), LAMBDA sub :
                   IF sub.st # "ok" THEN sub
                   ELSE populateEntries(sub.map, Tail(entries), pathPrefix, store)))
         ELSE populateEntries(MapPut(treeEntries, Join(pathPrefix, entry.name), entry.hash),
                              Tail(entries), pathPrefix, store))
populateTreeEntriesMap(treeEntries, treeObj, pathPrefix, store) ==
    populateEntries(treeEntries, treeObj.entries, pathPrefix, store)

\* currIndexEntriesMap: a later entry of a path replaces an earlier one
RECURSIVE entriesMap(_, _)
entriesMap(entries, map) ==
    IF entries = <<>> THEN map
    ELSE entriesMap(Tail(entries), MapPut(map, Head(entries).path, Head(entries)))

FileStatus(path, status) == [path |-> path, status |-> status]
StatusRes(st, branch, staged, notStaged, untracked, unmodified, store) ==
    [st |-> st, branch |-> branch, stagedFiles |-> staged, notStagedFiles |-> notStaged,
     untrackedFiles |-> untracked, unmodifiedFiles |-> unmodified, store |-> store]
StatusErr(store) == StatusRes("err", <<>>, {}, {}, {}, {}, store)

\* The first loop of GetRepoStatus for one path of the working tree: the
\* list the path goes to and its state ("none": no list)
workingTreePathStatus(path, indexMap, headTreeEntries, wfiles, store) ==
    IF path \notin DOMAIN indexMap /\ path \notin DOMAIN headTreeEntries
    THEN [list |-> "untracked", status |-> "Untracked"]
    ELSE IF path \in DOMAIN indexMap
    THEN Let(HexEncode(indexMap[path].sha1), LAMBDA indexHash :
         Let(createBlobObjectFromFile(path, wfiles, store).hash, LAMBDA workingTreeHash :
         IF workingTreeHash # indexHash
         THEN [list |-> "notStaged", status |-> "ModifiedNotStaged"]
         ELSE IF path \in DOMAIN headTreeEntries
         THEN IF workingTreeHash # headTreeEntries[path]
              THEN [list |-> "staged", status |-> "ModifiedStaged"]
              ELSE [list |-> "unmodified", status |-> "Unmodified"]
         ELSE [list |-> "staged", status |-> "AddedStaged"]))
    ELSE [list |-> "none", status |-> "none"]

\* The blobs CreateBlobObjectFromFile writes for the paths of the working
\* tree that are in the index
RECURSIVE blobsWritten(_, _, _)
blobsWritten(paths, wfiles, store) ==
    IF paths = {} THEN store
    ELSE Let(CHOOSE p \in paths : TRUE, LAMBDA path :
         blobsWritten(paths \ {path}, wfiles,
                      createBlobObjectFromFile(path, wfiles, store).store))

listed(first, list) ==
    {FileStatus(path, first[path].status) :
        path \in {q \in DOMAIN first : first[q].list = list}}

\* The three loops; the lists are in map order and modelled as sets
statusLists(branch, workingTreePathsSet, indexMap, headTreeEntries, wfiles, store) ==
    Let([path \in workingTreePathsSet |->
            workingTreePathStatus(path, indexMap, headTreeEntries, wfiles, store)],
        LAMBDA first :
    StatusRes("ok", branch,
        listed(first, "staged")
            \cup {FileStatus(path, "DeletedStaged") :
                     path \in {q \in DOMAIN headTreeEntries :
                                  q \notin DOMAIN indexMap /\ q \notin workingTreePathsSet}},
        listed(first, "notStaged")
            \cup {FileStatus(path, "DeletedNotStaged") :
                     path \in (DOMAIN indexMap) \ workingTreePathsSet},
        listed(first, "untracked"),
        listed(first, "unmodified"),
        blobsWritten(workingTreePathsSet \cap DOMAIN indexMap, wfiles, store)))

GetRepoStatus(fs, wfiles, store) ==
    Let(getCurrentBranch(fs), LAMBDA branch :
    IF branch.st # "ok" THEN StatusRes(branch.st, <<>>, {}, {}, {}, {}, store)
    ELSE Let(getWorkingTreeFilePaths(wfiles), LAMBDA workingTreePathsSet :
    Let(ReadIndex(fs), LAMBDA currIndexEntries :
    IF currIndexEntries.st # "ok" THEN StatusErr(store)
    ELSE Let(ResolveRef(HEAD_NAME, fs), LAMBDA head :
    IF head.st # "ok" THEN StatusErr(store)
    ELSE IF ~head.exists
    THEN StatusRes("ok", branch.name, {}, {},
                   {FileStatus(path, "Untracked") : path \in workingTreePathsSet}, {}, store)
    ELSE Let(readCommitObjectFile(head.hash, store), LAMBDA headCommitObj :
    IF headCommitObj.st # "ok" THEN StatusErr(store)
    ELSE Let(readTreeObjectFile(headCommitObj.treeHash, store), LAMBDA headTreeObj :
    IF headTreeObj.st # "ok" THEN StatusErr(store)
    ELSE Let(populateTreeEntriesMap(<<>>, headTreeObj, <<>>, store), LAMBDA headTreeEntries :
    IF headTreeEntries.st # "ok" THEN StatusErr(store)
    ELSE statusLists(branch.name, workingTreePathsSet,
                     entriesMap(currIndexEntries.entries, <<>>),
                     headTreeEntries.map, wfiles, store))))))))

WorkRes(st, wfiles) == [st |-> st, work |-> wfiles]

\* A directory of the working tree is a path with a file under it
IsWorkDir(path, wfiles) == \E p \in DOMAIN wfiles : HasPrefix(p, path \o <<47>>)

\* os.WriteFile(filePath, content, 0644): a new file gets the mode 0644, a
\* file that exists keeps its mode
WriteWorkFile(wfiles, filePath, content) ==
    FilePut(wfiles, filePath,
            IF filePath \in DOMAIN wfiles THEN [wfiles[filePath] EXCEPT !.content = content]
            ELSE RegularFile(content))

\* os.Chmod
Chmod(wfiles, filePath, perm) == [wfiles EXCEPT ![filePath].perm = perm]

\* MkdirAll fails on a parent that is a file, WriteFile on a directory; the
\* permissions are mode & 0777 of the decimal mode, set when they have an
\* execute bit
checkoutBlob(blobHash, filePath, mode, store, wfiles) ==
    Let(readBlobObjectFile(blobHash, store), LAMBDA blobObj :
    IF blobObj.st # "ok" THEN WorkRes("err", wfiles)
    ELSE IF \E dir \in Ancestors(Dir(filePath)) : dir \in DOMAIN wfiles
    THEN WorkRes("err", wfiles)
    ELSE IF IsWorkDir(filePath, wfiles) THEN WorkRes("err", wfiles)
    ELSE Let(WriteWorkFile(wfiles, filePath, blobObj.out), LAMBDA written :
         Let(mode % 512, LAMBDA perm :
         IF AnyExecBit(perm) THEN WorkRes("ok", Chmod(written, filePath, perm))
         ELSE WorkRes("ok", written))))

RECURSIVE checkoutTree(_, _, _, _)
RECURSIVE checkoutEntries(_, _, _, _)
checkoutEntries(entries, currDir, store, wfiles) ==
    IF entries = <<>> THEN WorkRes("ok", wfiles)
    ELSE Let(Head(entries), LAMBDA entry :
         Let(IF entry.objType = Blob
             THEN checkoutBlob(entry.hash, Join(currDir, entry.name), entry.mode,
                               store, wfiles)
             ELSE checkoutTree(entry.hash, Join(currDir, entry.name), store, wfiles),
             LAMBDA r :
         IF r.st # "ok" THEN r
         ELSE checkoutEntries(Tail(entries), currDir, store, r.work)))

checkoutTree(treeHash, currDir, store, wfiles) ==
    Let(readTreeObjectFile(treeHash, store), LAMBDA treeObj :
    IF treeObj.st # "ok" THEN WorkRes("err", wfiles)
    ELSE checkoutEntries(treeObj.entries, currDir, store, wfiles))

\* clearWorkingDirectory removes every entry of the repository directory
\* whose name does not start with "."; 46 is '.'
clearWorkingDirectory(wfiles) ==
    [path \in {p \in DOMAIN wfiles : p[1] = 46} |-> wfiles[path]]

\* os.ReadDir(dir): the names of the entries of a directory
ReadDir(dir, wfiles) ==
    {Split(TrimPrefix(p, IF dir = <<>> THEN <<>> ELSE dir \o <<47>>), 47)[1] :
        p \in {q \in DOMAIN wfiles : dir = <<>> \/ HasPrefix(q, dir \o <<47>>)}}

TreeObjRes(st, hash, store) == [st |-> st, hash |-> hash, store |-> store]

\* createTreeObjectFromDirectory: entries whose name starts with "." are
\* skipped; a directory gives a tree entry, a file a blob entry whose mode
\* comes from os.Lstat
RECURSIVE createTreeObjectFromDirectory(_, _, _)
RECURSIVE directoryEntries(_, _, _, _, _)
directoryEntries(names, dir, entries, wfiles, store) ==
    IF names = {} THEN [st |-> "ok", entries |-> entries, store |-> store]
    ELSE Let(CHOOSE n \in names : TRUE, LAMBDA name :
         Let(Join(dir, name), LAMBDA fullPath :
         IF name[1] = 46
         THEN directoryEntries(names \ {name}, dir, entries, wfiles, store)
         ELSE IF fullPath \notin DOMAIN wfiles
         THEN Let(createTreeObjectFromDirectory(fullPath, wfiles, store), LAMBDA subDirTreeObj :
              IF subDirTreeObj.st # "ok"
              THEN [st |-> "err", entries |-> <<>>, store |-> subDirTreeObj.store]
              ELSE directoryEntries(names \ {name}, dir,
                       Append(entries, TreeEntry(subDirTreeObj.hash, DIRECTORY_MODE, name, Tree)),
                       wfiles, subDirTreeObj.store))
         ELSE Let(createBlobObjectFromFile(fullPath, wfiles, store), LAMBDA fileBlobObj :
              IF fileBlobObj.st # "ok"
              THEN [st |-> "err", entries |-> <<>>, store |-> fileBlobObj.store]
              ELSE directoryEntries(names \ {name}, dir,
                       Append(entries, TreeEntry(fileBlobObj.hash,
                                                 getGitModeFromFileMode(wfiles[fullPath]),
                                                 name, Blob)),
                       wfiles, fileBlobObj.store))))

createTreeObjectFromDirectory(dir, wfiles, store) ==
    Let(directoryEntries(ReadDir(dir, wfiles), dir, <<>>, wfiles, store), LAMBDA d :
    IF d.st # "ok" THEN TreeObjRes("err", <<>>, d.store)
    ELSE Let(treeContent(SortBy(d.entries, EntryName)), LAMBDA content :
         IF content.st # "ok" THEN TreeObjRes("err", <<>>, d.store)
         ELSE createObjectFile(Tree, content.out, d.store)))

CheckoutRes(st, wfiles, indexEntries, store) ==
    [st |-> st, work |-> wfiles, index |-> indexEntries, store |-> store]

\* CheckoutCommit: the working tree and the index become those of the commit
CheckoutCommit(commitHash, wfiles, indexEntries, store) ==
    Let(readCommitObjectFile(commitHash, store), LAMBDA commitObj :
    IF commitObj.st # "ok" THEN CheckoutRes(commitObj.st, wfiles, indexEntries, store)
    ELSE Let(checkoutTree(commitObj.treeHash, <<>>, store, clearWorkingDirectory(wfiles)),
             LAMBDA t :
         IF t.st # "ok" THEN CheckoutRes("err", t.work, indexEntries, store)
         ELSE Let(CreateIndexFromWorkingTree(t.work, store), LAMBDA x :
              IF x.st # "ok" THEN CheckoutRes("err", t.work, indexEntries, x.store)
              ELSE CheckoutRes("ok", t.work, x.index, x.store))))

\* The objects reachable from a commit: the commit, its tree with everything
\* under it, and the same for each parent
RECURSIVE treeObjects(_, _)
RECURSIVE entriesObjects(_, _, _)
entriesObjects(entries, store, found) ==
    IF entries = <<>> THEN Ok(found)
    ELSE IF Head(entries).objType = Blob
    THEN entriesObjects(Tail(entries), store, found \cup {Head(entries).hash})
    ELSE Let(treeObjects(Head(entries).hash, store), LAMBDA sub :
         IF sub.st # "ok" THEN Err
         ELSE entriesObjects(Tail(entries), store, found \cup sub.out))

treeObjects(treeHash, store) ==
    Let(readTreeObjectFile(treeHash, store), LAMBDA treeObj :
    IF treeObj.st # "ok" THEN Err
    ELSE entriesObjects(treeObj.entries, store, {treeHash}))

RECURSIVE GetAllObjectsInCommit(_, _)
RECURSIVE parentsObjects(_, _, _)
parentsObjects(parentCommitHashes, store, found) ==
    IF parentCommitHashes = <<>> THEN Ok(found)
    ELSE Let(GetAllObjectsInCommit(Head(parentCommitHashes), store), LAMBDA p :
         IF p.st # "ok" THEN p
         ELSE parentsObjects(Tail(parentCommitHashes), store, found \cup p.out))

GetAllObjectsInCommit(commitHash, store) ==
    Let(readCommitObjectFile(commitHash, store), LAMBDA commitObj :
    IF commitObj.st # "ok" THEN [st |-> commitObj.st, out |-> <<>>]
    ELSE Let(treeObjects(commitObj.treeHash, store), LAMBDA t :
         IF t.st # "ok" THEN Err
         ELSE parentsObjects(commitObj.parentCommitHashes, store,
                             {commitHash} \cup t.out)))

-----------------------------------------------------------------------------
(* clone.go, pull.go, push.go: the exchanges with the remote repository *)

\* An HTTP response as the client sees it: st is "err" when makeHTTPRequest
\* fails (no connection, or a status that is not accepted); lines is what
\* readPktLines makes of the body, nak the first pkt-line of an upload-pack
\* response and packfile the bytes after it.
HttpErr == [st |-> "err"]
LinesResp(lines) == [st |-> "ok", lines |-> lines]
BodyResp(body) == [st |-> "ok", body |-> body]
PackResp(nakLine, packfile) == [st |-> "ok", nak |-> nakLine, packfile |-> packfile]

\* strconv.ParseInt(s, 16, 64) of a string of at most four bytes: an optional
\* sign, then hex digits of either case
RECURSIVE HexNumber(_)
HexNumber(digits) ==
    IF digits = <<>> THEN 0
    ELSE HexNumber(SubSeq(digits, 1, Len(digits) - 1)) * 16 + HexVal(digits[Len(digits)])
ParseInt16(s) ==
    IF s = <<>> THEN [st |-> "err", val |-> 0]
    ELSE Let(IF s[1] \in {43, 45} THEN Tail(s) ELSE s, LAMBDA digits :
         IF digits = <<>> \/ \E k \in 1..Len(digits) : HexVal(digits[k]) = -1
         THEN [st |-> "err", val |-> 0]
         ELSE [st |-> "ok",
               val |-> IF s[1] = 45 THEN 0 - HexNumber(digits) ELSE HexNumber(digits)])

\* fmt.Sprintf("%04x", n): lowercase hex digits, zeros in front up to four
RECURSIVE HexDigitsOf(_)
HexDigitsOf(n) ==
    IF n < 16 THEN <<HexDigit(n)>> ELSE HexDigitsOf(n \div 16) \o <<HexDigit(n % 16)>>
Hex04(n) == [k \in 1..(4 - Len(HexDigitsOf(n))) |-> 48] \o HexDigitsOf(n)

\* strings.TrimRight(s, cutset)
TrimRight(s, cutset) ==
    Let({k \in 1..Len(s) : s[k] \notin cutset}, LAMBDA K :
    IF K = {} THEN <<>> ELSE SubSeq(s, 1, Max(K)))

\* "0000"
FLUSH_PKT == <<48, 48, 48, 48>>

createPktLine(content) ==
    Let(IF content # <<>> /\ content[Len(content)] = 10 THEN content
        ELSE content \o <<10>>, LAMBDA withNewline :
    Hex04(Len(withNewline) + 4) \o withNewline)

createPktLineStream(pktLines) ==
    Concat(pktLines)
        \o (IF Len(pktLines) = 0 \/ pktLines[Len(pktLines)] # FLUSH_PKT
            THEN FLUSH_PKT ELSE <<>>)

\* The loop of readPktLines with i bytes of the body read.  io.ReadFull fails
\* when fewer bytes are left than asked for; make([]byte, n) panics for n < 0.
RECURSIVE readPktLinesFrom(_, _, _, _)
readPktLinesFrom(body, i, passedStart, pktLines) ==
    IF Len(body) - i < 4 THEN Err
    ELSE Let(ParseInt16(Slice(body, i, i + 4)), LAMBDA length :
         IF length.st # "ok" THEN Err
         ELSE IF length.val = 0 /\ ~passedStart
         THEN readPktLinesFrom(body, i + 4, TRUE, pktLines)
         ELSE IF length.val = 0 THEN Ok(pktLines)
         ELSE IF length.val - 4 < 0 THEN Panic
         ELSE IF Len(body) - (i + 4) < length.val - 4 THEN Err
         ELSE readPktLinesFrom(body, i + length.val, passedStart,
                  Append(pktLines,
                         TrimRight(Slice(body, i + 4, i + length.val), {13, 10}))))
readPktLines(body) == readPktLinesFrom(body, 0, FALSE, <<>>)

\* readPktLine: the first frame of the body
readPktLine(body) ==
    IF Len(body) < 4 THEN Err
    ELSE Let(ParseInt16(Slice(body, 0, 4)), LAMBDA length :
         IF length.st # "ok" THEN Err
         ELSE IF length.val - 4 < 0 THEN Panic
         ELSE IF Len(body) - 4 < length.val - 4 THEN Err
         ELSE Ok(TrimRight(Slice(body, 4, length.val), {13, 10})))

\* "refs/heads/"
REFS_HEADS_SLASH == <<114, 101, 102, 115, 47, 104, 101, 97, 100, 115, 47>>
\* "# service=git-upload-pack"
SERVICE_LINE ==
    <<35, 32, 115, 101, 114, 118, 105, 99, 101, 61, 103, 105, 116, 45, 117, 112,
      108, 111, 97, 100, 45, 112, 97, 99, 107>>
\* "NAK"
NAK == <<78, 65, 75>>
\* "unpack ok"
UNPACK_OK == <<117, 110, 112, 97, 99, 107, 32, 111, 107>>
\* "ok refs/heads/"
OK_REFS_HEADS == <<111, 107, 32, 114, 101, 102, 115, 47, 104, 101, 97, 100, 115, 47>>
\* "\0 report-status"
REPORT_STATUS == <<0, 32, 114, 101, 112, 111, 114, 116, 45, 115, 116, 97, 116, 117, 115>>
\* strings.Repeat("0", OBJECT_HASH_LENGTH_STRING)
ZERO_HASH == [k \in 1..OBJECT_HASH_LENGTH_STRING |-> 48]

\* The lines of a ref advertisement that pass the checks of refDiscovery
discoveredLines(resp) ==
    IF resp.st # "ok" THEN Err
    ELSE IF resp.lines.st # "ok" THEN Err
    ELSE IF Len(resp.lines.out) = 0 THEN Err
    ELSE IF resp.lines.out[1] # SERVICE_LINE THEN Err
    ELSE Ok(resp.lines.out)


\* The "for _, refPktLine := range refsPktLines" loop of refDiscovery
RECURSIVE refsMapOf(_, _)
refsMapOf(refsPktLines, refsMap) ==
    IF refsPktLines = <<>> THEN refsMap
    ELSE Let(Head(refsPktLines), LAMBDA refPktLine :
         refsMapOf(Tail(refsPktLines),
             IF Len(refPktLine) > 45 /\ Slice(refPktLine, 41, 45) = HEAD_NAME
             THEN MapPut(refsMap, HEAD_NAME, Slice(refPktLine, 0, 40))
             ELSE IF Len(refPktLine) > 52 /\ Slice(refPktLine, 41, 52) = REFS_HEADS_SLASH
             THEN MapPut(refsMap, Slice(refPktLine, 52, Len(refPktLine)),
                         Slice(refPktLine, 0, 40))
             ELSE refsMap))

\* pull: refDiscovery returns the map of the advertised refs
refDiscovery(resp) ==
    Let(discoveredLines(resp), LAMBDA refsPktLines :
    IF refsPktLines.st # "ok" THEN Err
    ELSE Let(refsMapOf(refsPktLines.out, << >>), LAMBDA refsMap :
         IF \E refName \in DOMAIN refsMap : ~isValidObjectHash(refsMap[refName]) THEN Err
         ELSE Ok(refsMap)))

\* pull: one want for each entry of the map
wantObjHashes(refsMap) == {refsMap[refName] : refName \in DOMAIN refsMap}

\* The response to an upload-pack request: "NAK", then the pack
uploadPackResponse(resp) ==
    IF resp.st # "ok" THEN Err
    ELSE IF resp.nak # NAK THEN Err
    ELSE Ok(resp.packfile)

\* clone: the hash of the last advertised line that names HEAD
headHashOf(refsPktLines) ==
    Let({k \in 1..Len(refsPktLines) :
            /\ Len(refsPktLines[k]) > 45
            /\ Slice(refsPktLines[k], 41, 45) = HEAD_NAME},
        LAMBDA K : IF K = {} THEN <<>> ELSE Slice(refsPktLines[Max(K)], 0, 40))

\* clone: the checks of uploadPackRequest before the request is made
cloneHeadHash(refsPktLines) ==
    Let(headHashOf(refsPktLines), LAMBDA headHash :
    IF headHash = <<>> THEN Err
    ELSE IF ~isValidObjectHash(headHash) THEN Err
    ELSE Ok(headHash))

\* clone: headHash + "\n" written to refs/heads/master
writeMasterRef(headHash, fs) == WriteFile(fs, Join(HEADS_DIR, MASTER), headHash \o <<10>>)

\* part_021, createRefs: the same written to refs/remotes/origin/master
writeMasterRefRemote(headHash, fs) ==
    WriteFile(fs, Join(ORIGIN_DIR, MASTER), headHash \o <<10>>)

\* The hashes of a set, as a list in ascending order
Sorted(hashes) ==
    [j \in 1..Cardinality(hashes) |->
        CHOOSE h \in hashes : Cardinality({g \in hashes : Less(g, h)}) = j - 1]
\* A list started at its k-th element
Rotated(list, k) == SubSeq(list, k, Len(list)) \o SubSeq(list, 1, k - 1)

\* calculateMissingObjects that subtracts nothing
calculateAllLocalObjects(localHead, remoteHead, store) ==
    Let(GetAllObjectsInCommit(localHead, store), LAMBDA localObjHashes :
    IF localObjHashes.st # "ok" THEN [st |-> localObjHashes.st, out |-> {}]
    ELSE Let(IF remoteHead = <<>> THEN Ok({})
             ELSE GetAllObjectsInCommit(remoteHead, store), LAMBDA remoteObjHashes :
         IF remoteObjHashes.st # "ok" THEN [st |-> remoteObjHashes.st, out |-> {}]
         ELSE Ok(localObjHashes.out)))

\* The result is a set: the list the code returns is in map order
calculateMissingObjects(localHead, remoteHead, store) ==
    Let(GetAllObjectsInCommit(localHead, store), LAMBDA localObjHashes :
    IF localObjHashes.st # "ok" THEN [st |-> localObjHashes.st, out |-> {}]
    ELSE Let(IF remoteHead = <<>> THEN Ok({})
             ELSE GetAllObjectsInCommit(remoteHead, store), LAMBDA remoteObjHashes :
         IF remoteObjHashes.st # "ok" THEN [st |-> remoteObjHashes.st, out |-> {}]
         ELSE Ok({obj \in localObjHashes.out : obj \notin remoteObjHashes.out})))

\* The body of the receive-pack request: the ref update line, then the pack
refUpdateLine(branchName, localHead, remoteHead) ==
    (IF remoteHead = <<>> THEN ZERO_HASH ELSE remoteHead) \o <<32>> \o localHead
        \o <<32>> \o REFS_HEADS_SLASH \o branchName \o REPORT_STATUS
receivePackReqBody(branchName, localHead, remoteHead, packfile) ==
    [line |-> refUpdateLine(branchName, localHead, remoteHead), packfile |-> packfile]

\* receivePackRequest that takes any answer of the server for an acceptance
receivePackRequestUnchecked(branchName, resp) ==
    IF resp.st # "ok" THEN "err"
    ELSE Let(readPktLines(resp.body), LAMBDA lines :
         IF lines.st # "ok" THEN lines.st
         ELSE "ok")

\* receivePackRequest, from the response to the request on: makeHTTPRequest
\* fails or hands over the body of a 200 response
receivePackRequest(branchName, resp) ==
    IF resp.st # "ok" THEN "err"
    ELSE Let(readPktLines(resp.body), LAMBDA lines :
         IF lines.st # "ok" THEN lines.st
         ELSE IF Len(lines.out) < 2 THEN "err"
         ELSE IF lines.out[1] # UNPACK_OK THEN "err"
         ELSE IF lines.out[2] # OK_REFS_HEADS \o branchName THEN "err"
         ELSE "ok")

-----------------------------------------------------------------------------
(* Delta runs: the inputs applyDelta is run on *)

MaxRawLen   == 4      \* longest delta drawn byte by byte
MaxBaseLen  == 3      \* longest small base
MaxInstrs   == 2      \* longest encoded instruction list
MaxCopyOff  == 2      \* largest COPY offset of an enumerated instruction
MaxCopySize == 2      \* largest COPY size of an enumerated instruction
MaxAddLen   == 2      \* longest ADD literal of an enumerated instruction
BigBaseLen  == 65537  \* length of the base the 0x10000-byte COPY is run on

SeqsUpTo(S, n) == UNION {[1..k -> S] : k \in 0..n}

\* Bytes a raw delta is drawn from: sizes and ADD lengths 0, 1, 2; COPY
\* commands announcing no field (0x80), a size byte (0x90), an offset and a
\* size byte (0x91).
RawBytes == {0, 1, 2, 128, 144, 145}

\* "abcdefghij..." cut to n bytes, and "XYZWV" cut to n bytes.
BasePrefix(n) == [i \in 1..n |-> 96 + i]
AddLiteral(n) == [i \in 1..n |-> IF i <= 3 THEN 87 + i ELSE IF i = 4 THEN 87 ELSE 86]
BigBase == [i \in 1..BigBaseLen |-> i % 251]

CopyInstr(off, size) == [op |-> "COPY", off |-> off, size |-> size, lit |-> <<>>]
AddInstr(lit)        == [op |-> "ADD", off |-> 0, size |-> 0, lit |-> lit]
ZeroInstr            == [op |-> "ZERO", off |-> 0, size |-> 0, lit |-> <<>>]

\* The number of bytes a COPY with decoded size field n stands for.
EffectiveSize(n) == IF n = 0 THEN 65536 ELSE n

\* Delta encoding of a size: 7 bits per byte, low bits first, bit 7 = more.
RECURSIVE EncodeDeltaSize(_)
EncodeDeltaSize(n) ==
    IF n < 128 THEN <<n>> ELSE <<128 + (n % 128)>> \o EncodeDeltaSize(n \div 128)

\* The non-zero bytes of v, little-endian, positions 0..jmax.
RECURSIVE FieldBytes(_, _, _)
FieldBytes(v, j, jmax) ==
    IF j > jmax THEN <<>>
    ELSE (IF (v \div (256 ^ j)) % 256 # 0 THEN <<(v \div (256 ^ j)) % 256>> ELSE <<>>)
         \o FieldBytes(v, j + 1, jmax)

RECURSIVE FieldBits(_, _, _, _)
FieldBits(v, j, jmax, bit0) ==
    IF j > jmax THEN 0
    ELSE (IF (v \div (256 ^ j)) % 256 # 0 THEN 2 ^ (bit0 + j) ELSE 0)
         + FieldBits(v, j + 1, jmax, bit0)

EncodeInstr(in) ==
    IF in.op = "COPY"
    THEN <<128 + FieldBits(in.off, 0, 3, 0) + FieldBits(in.size, 0, 2, 4)>>
         \o FieldBytes(in.off, 0, 3) \o FieldBytes(in.size, 0, 2)
    ELSE IF in.op = "ADD"
    THEN <<Len(in.lit)>> \o in.lit
    ELSE <<0>>

RECURSIVE EncodeInstrs(_)
EncodeInstrs(ins) ==
    IF ins = <<>> THEN <<>> ELSE EncodeInstr(Head(ins)) \o EncodeInstrs(Tail(ins))

EncodeDelta(src, tgt, ins) ==
    EncodeDeltaSize(src) \o EncodeDeltaSize(tgt) \o EncodeInstrs(ins)

\* What the instruction list stands for.
InstrOutput(in, base) ==
    IF in.op = "COPY" THEN SubSeq(base, in.off + 1, in.off + EffectiveSize(in.size))
    ELSE in.lit

RECURSIVE Expected(_, _)
Expected(ins, base) ==
    IF ins = <<>> THEN <<>> ELSE InstrOutput(Head(ins), base) \o Expected(Tail(ins), base)

RECURSIVE TotalSize(_)
TotalSize(ins) ==
    IF ins = <<>> THEN 0
    ELSE (IF Head(ins).op = "COPY" THEN EffectiveSize(Head(ins).size) ELSE Len(Head(ins).lit))
         + TotalSize(Tail(ins))

WellFormed(ins, base) ==
    \A k \in 1..Len(ins) :
        \/ /\ ins[k].op = "COPY"
           /\ ins[k].off + EffectiveSize(ins[k].size) <= Len(base)
        \/ /\ ins[k].op = "ADD"
           /\ Len(ins[k].lit) \in 1..127

SmallInstrs ==
    {CopyInstr(o, n) : o \in 0..MaxCopyOff, n \in 1..MaxCopySize}
      \cup {AddInstr(AddLiteral(n)) : n \in 1..MaxAddLen}
      \cup {ZeroInstr}

\* The example of the specification's section 8, and runs of the 0x10000 COPY.
SpecExample == [base |-> BasePrefix(10),
                ins  |-> <<CopyInstr(0, 5), AddInstr(AddLiteral(5))>>]
BigRuns ==
    {[base |-> BigBase, ins |-> <<CopyInstr(o, 0)>>] : o \in 0..2}
      \cup {[base |-> BigBase, ins |-> <<AddInstr(AddLiteral(1)), CopyInstr(1, 0)>>]}
      \cup {[base |-> BasePrefix(MaxBaseLen), ins |-> <<CopyInstr(0, 0)>>]}

EncodedRuns ==
    {[base |-> BasePrefix(n), ins |-> l] :
        n \in 0..MaxBaseLen, l \in SeqsUpTo(SmallInstrs, MaxInstrs)}
      \cup {SpecExample} \cup BigRuns

DeltaIdle ==
    /\ dKind = "idle" /\ dBase = <<>> /\ dDelta = <<>> /\ dInstrs = <<>>
    /\ dSrcSize = 0 /\ dTgtSize = 0 /\ dRes = NoRes /\ dPhase = "idle"

PackIdle ==
    /\ pStore = << >> /\ pHashes = <<>> /\ pCreateRes = "none" /\ pPack = <<>>
    /\ pCorrupt = "none" /\ pDst0 = << >> /\ pDst = << >> /\ pReadRes = "none"
    /\ pPhase = "idle" /\ pEntries = <<>>

PktIdle ==
    kKind = "idle" /\ kPayloads = <<>> /\ kBody = <<>> /\ kRes = NoRes /\ kPhase = "idle"

NoLoc  == [none |-> TRUE]
NoHist == [cmd |-> "none"]

RepoIdle ==
    /\ gitFiles = << >> /\ gitDirs = {} /\ objects = << >> /\ stage = <<>> /\ work = <<>>
    /\ srvRefs = << >> /\ srvObjects = << >> /\ made = 0
    /\ pc = "off" /\ loc = NoLoc /\ hist = NoHist

InitDelta ==
    /\ PackIdle
    /\ PktIdle
    /\ RepoIdle
    /\ dPhase = "input"
    /\ dRes = NoRes
    /\ \/ /\ dKind = "raw"
          /\ dInstrs = <<>> /\ dSrcSize = 0 /\ dTgtSize = 0
          /\ dDelta \in SeqsUpTo(RawBytes, MaxRawLen)
          /\ \E n \in 0..MaxBaseLen : dBase = BasePrefix(n)
       \/ /\ dKind = "enc"
          /\ \E run \in EncodedRuns :
               /\ dBase = run.base
               /\ dInstrs = run.ins
               /\ dSrcSize \in {Len(run.base), Len(run.base) + 1}
               /\ dTgtSize \in {TotalSize(run.ins), TotalSize(run.ins) + 1}
               /\ dDelta = EncodeDelta(dSrcSize, dTgtSize, run.ins)

ApplyDeltaCall ==
    /\ dPhase = "input"
    /\ dRes' = applyDelta(dDelta, dBase)
    /\ dPhase' = "done"
    /\ UNCHANGED <<dKind, dBase, dDelta, dInstrs, dSrcSize, dTgtSize>>
    /\ UNCHANGED notDeltaVars

NextDelta == ApplyDeltaCall

SpecDelta == InitDelta /\ [][NextDelta]_vars

-----------------------------------------------------------------------------
(* Claims about applyDelta *)

\* C6: applyDelta returns a result only when the number of bytes it emitted
\* equals the target size declared in the delta and the declared source size
\* equals the length of the base; for every other delta/base pair it returns
\* an error.
C6_ResultOnlyWhenSizesMatchElseError ==
    dPhase = "done" =>
        LET src == readVariableSizeEncoding(dDelta, 0, 7)
            tgt == readVariableSizeEncoding(dDelta, src.i, 7)
        IN /\ dRes.st = "ok" =>
                 /\ src.st = "ok" /\ src.val = Len(dBase)
                 /\ tgt.st = "ok" /\ tgt.val = Len(dRes.out)
           /\ dRes.st # "ok" => dRes.st = "err"

\* C7: a delta instruction stream that contains the command byte 0 makes
\* applyDelta fail with an error, whatever the other instructions and the
\* declared target size are.
C7_CommandByteZeroFails ==
    (dPhase = "done" /\ dKind = "enc" /\ \E k \in 1..Len(dInstrs) : dInstrs[k] = ZeroInstr)
        => dRes.st = "err"

\* C8: for every base and every well-formed sequence of COPY(offset, size)
\* and ADD(literal) instructions whose declared sizes match, applyDelta
\* returns the concatenation, in instruction order, of base[offset ..
\* offset+size] for each COPY (a decoded size of 0 meaning 0x10000) and of the
\* literal bytes for each ADD.
C8_ApplyDeltaConcatenates ==
    (/\ dPhase = "done" /\ dKind = "enc"
     /\ WellFormed(dInstrs, dBase)
     /\ dSrcSize = Len(dBase)
     /\ dTgtSize = TotalSize(dInstrs))
        => dRes = Ok(Expected(dInstrs, dBase))

\* The example of section 8: base "abcdefghij", COPY offset 0 size 5, then
\* ADD "XYZWV", gives "abcdeXYZWV".
C8_Witness ==
    /\ dPhase = "done"
    /\ dBase = <<97, 98, 99, 100, 101, 102, 103, 104, 105, 106>>
    /\ dInstrs = <<CopyInstr(0, 5), AddInstr(<<88, 89, 90, 87, 86>>)>>
    /\ dSrcSize = 10 /\ dTgtSize = 10
    /\ dRes = Ok(<<97, 98, 99, 100, 101, 88, 89, 90, 87, 86>>)

-----------------------------------------------------------------------------
(* Pack runs: CreatePackfile on a store, the pack in transit, ReadPackfile *)

MaxPackObjs == 2    \* objects in a pack

\* Payload lengths on both sides of the one-byte size header (4 bits: < 16)
PackPayloadLens == {0, 1, 15, 16, 17}
\* Payload bytes, a NUL and a space among them
Payload(n) == [k \in 1..n |-> ((k - 1) * 32 + (k \div 9)) % 256]

SetByte(s, i, b) == [s EXCEPT ![i + 1] = b]
Reseal(body) == body \o Sha1Sum(body)
PackBody(pack) == Slice(pack, 0, Len(pack) - PACKFILE_CHECKSUM_LENGTH)

\* Damage to a pack in transit.  The first four leave a trailing checksum that
\* does not match (or no room for one); the last two are packs with a
\* matching checksum over a damaged body.
PackDamage == {"checksum", "body", "short", "empty", "version", "count"}
Damaged(pack, kind) ==
    CASE kind = "checksum" -> SetByte(pack, Len(pack) - 1, (At(pack, Len(pack) - 1) + 1) % 256)
      [] kind = "body"     -> SetByte(pack, PACKFILE_HEADER_LENGTH,
                                      (At(pack, PACKFILE_HEADER_LENGTH) + 16) % 128)
      [] kind = "short"    -> Slice(pack, 0, PACKFILE_CHECKSUM_LENGTH - 1)
      [] kind = "empty"    -> <<>>
      [] kind = "version"  -> Reseal(SetByte(PackBody(pack), 7, 3))
      [] kind = "count"    -> Reseal(SetByte(PackBody(pack), 11, At(pack, 11) + 1))

InitPack ==
    /\ DeltaIdle
    /\ PktIdle
    /\ RepoIdle
    /\ pStore = EmptyStore /\ pHashes = <<>> /\ pCreateRes = "none" /\ pPack = <<>>
    /\ pCorrupt = "none"
    /\ pDst0 \in {EmptyStore, createObjectFile(Blob, Payload(2), EmptyStore).store}
    /\ pDst = pDst0
    /\ pReadRes = "none"
    /\ pPhase = "build" /\ pEntries = <<>>

\* An object is written to the sending store and its hash listed.
CreateObjectFileCall ==
    /\ pPhase = "build"
    /\ Len(pHashes) < MaxPackObjs
    /\ \E t \in {Blob, Tree, Commit}, n \in PackPayloadLens :
         LET w == createObjectFile(t, Payload(n), pStore)
         IN /\ pStore' = w.store
            /\ pHashes' = Append(pHashes, w.hash)
    /\ UNCHANGED <<pCreateRes, pPack, pCorrupt, pDst0, pDst, pReadRes, pPhase, pEntries>>
    /\ UNCHANGED notPackVars

CreatePackfileCall ==
    /\ pPhase = "build"
    /\ LET r == CreatePackfile(pHashes, pStore)
       IN /\ pCreateRes' = r.st
          /\ pPack' = r.out
    /\ pPhase' = "packed"
    /\ UNCHANGED <<pStore, pHashes, pCorrupt, pDst0, pDst, pReadRes, pEntries>>
    /\ UNCHANGED notPackVars

DamagePack ==
    /\ pPhase = "packed" /\ pCreateRes = "ok" /\ pCorrupt = "none"
    /\ \E kind \in PackDamage :
         /\ pCorrupt' = kind
         /\ pPack' = Damaged(pPack, kind)
    /\ UNCHANGED <<pStore, pHashes, pCreateRes, pDst0, pDst, pReadRes, pPhase, pEntries>>
    /\ UNCHANGED notPackVars

ReadPackfileCall ==
    /\ pPhase = "packed" /\ pCreateRes = "ok"
    /\ LET r == ReadPackfile(pPack, pDst)
       IN /\ pReadRes' = r.st
          /\ pDst' = r.store
    /\ pPhase' = "read"
    /\ UNCHANGED <<pStore, pHashes, pCreateRes, pPack, pCorrupt, pDst0, pEntries>>
    /\ UNCHANGED notPackVars

NextPack ==
    \/ CreateObjectFileCall
    \/ CreatePackfileCall
    \/ DamagePack
    \/ ReadPackfileCall

SpecPack == InitPack /\ [][NextPack]_vars

-----------------------------------------------------------------------------
(* Claims about the pack codec *)

ChecksumMatches(pack) ==
    /\ Len(pack) >= PACKFILE_CHECKSUM_LENGTH
    /\ Slice(pack, Len(pack) - PACKFILE_CHECKSUM_LENGTH, Len(pack)) = Sha1Sum(PackBody(pack))

\* C9: ReadPackfile verifies the trailing checksum before it parses or writes
\* anything: for a pack whose last 20 bytes differ from the SHA-1 of all
\* preceding bytes, or that is shorter than 20 bytes, it returns an error and
\* the object store is unchanged.
C9_BadChecksumRejectedStoreUnchanged ==
    (pPhase = "read" /\ ~ChecksumMatches(pPack))
        => (pReadRes = "err" /\ pDst = pDst0)

\* A pack whose objects are all readable, its last checksum byte changed in
\* transit, has been handed to ReadPackfile with an empty receiving store.
C9_Witness ==
    /\ pPhase = "read" /\ pCorrupt = "checksum"
    /\ Len(pHashes) = MaxPackObjs
    /\ pDst0 = EmptyStore
    /\ ReadPackfileUnverified(pPack, pDst0).st = "ok"
    /\ ReadPackfileUnverified(pPack, pDst0).store # pDst0
    /\ pReadRes = "err" /\ pDst = pDst0

StoreOf(hashes, store) ==
    [h \in {hashes[k] : k \in 1..Len(hashes)} |-> store[h]]

\* C10: for every non-empty list of hashes of objects present in the store
\* (blobs, trees and commits of every payload length, zero included),
\* CreatePackfile succeeds, its output declares an object count equal to the
\* list length and ends with the SHA-1 of all preceding bytes, and
\* ReadPackfile of that output into an empty store recreates exactly those
\* objects under the same hashes.
C10_PackRoundTrip ==
    (pPhase \in {"packed", "read"} /\ pCorrupt = "none" /\ Len(pHashes) > 0)
        => /\ pCreateRes = "ok"
           /\ Uint32(Slice(pPack, 8, 12)) = Len(pHashes)
           /\ ChecksumMatches(pPack)
           /\ (pPhase = "read" /\ pDst0 = EmptyStore)
                  => (pReadRes = "ok" /\ pDst = StoreOf(pHashes, pStore))

-----------------------------------------------------------------------------
(* Repository runs: the commands on one repository and its remote *)

MaxLocalCommits == 1   \* commits made by the commit and branch commands

\* "f", the file of the working tree; what the user writes into it
FILE_F == <<102>>
FileContents == {<<97>>}
BranchNames == {MASTER, DEV}
\* The branch command is run for dev.
NewBranchNames == {MASTER, DEV}
\* "Made a commit!", "Create branch "
DEFAULT_MESSAGE == <<77, 97, 100, 101, 32, 97, 32, 99, 111, 109, 109, 105, 116, 33>>
CREATE_BRANCH == <<67, 114, 101, 97, 116, 101, 32, 98, 114, 97, 110, 99, 104, 32>>

FS == [files |-> gitFiles, dirs |-> gitDirs]
RepoExists == gitDirs # {}

\* What is recorded of the command that runs: the ref files when it started,
\* what it received and sent
H0(cmd) ==
    [cmd |-> cmd, out |-> "running", files0 |-> gitFiles, variant |-> "none",
     damage |-> "none", readRes |-> "none", packBuilt |-> FALSE, sent |-> FALSE,
     transport |-> "none", srvAccepted |-> FALSE, report |-> "none", localHead |-> <<>>,
     remoteHead |-> <<>>, branch |-> <<>>]
HB(cmd, branchName) == [H0(cmd) EXCEPT !.branch = branchName]

Goto(step, l, h) == pc' = step /\ loc' = l /\ hist' = h
Done(out, h) == pc' = "done" /\ loc' = NoLoc /\ hist' = [h EXCEPT !.out = out]

\* The command has returned; the next one can start.  A clone that failed
\* and a command that panicked end the run.
Finish ==
    /\ pc = "done"
    /\ hist.out # "panic"
    /\ hist.cmd = "clone" => hist.out = "ok"
    /\ pc' = "idle" /\ loc' = NoLoc /\ hist' = NoHist
    /\ UNCHANGED <<gitFiles, gitDirs, objects, stage, work, srvRefs, srvObjects, made>>
    /\ UNCHANGED notRepoVars

\* The user writes the file f.
EditFile ==
    /\ pc = "idle" /\ RepoExists
    /\ \E c \in FileContents :
         /\ (IF FILE_F \in DOMAIN work THEN work[FILE_F].content # c ELSE TRUE)
         /\ work' = FilePut(work, FILE_F, RegularFile(c))
    /\ UNCHANGED <<gitFiles, gitDirs, objects, stage, srvRefs, srvObjects, made, pc, loc, hist>>
    /\ UNCHANGED notRepoVars

InitHandler ==
    /\ pc = "idle"
    /\ \E r \in {initRepo(FS)} :
         /\ gitFiles' = r.fs.files
         /\ gitDirs' = r.fs.dirs
         /\ Done(IF r.st = "ok" THEN "ok" ELSE "fatal", H0("init"))
    /\ UNCHANGED <<objects, stage, work, srvRefs, srvObjects, made>>
    /\ UNCHANGED notRepoVars

\* add f
AddHandler ==
    /\ pc = "idle" /\ RepoExists
    /\ IF FILE_F \notin DOMAIN work
       THEN /\ Done("fatal", H0("add"))
            /\ UNCHANGED <<stage, objects>>
       ELSE \E r \in {AddFilesToIndex({FILE_F}, stage, work, objects)} :
              /\ stage' = r.index
              /\ objects' = r.store
              /\ Done(IF r.st = "ok" THEN "ok" ELSE "fatal", H0("add"))
    /\ UNCHANGED <<gitFiles, gitDirs, work, srvRefs, srvObjects, made>>
    /\ UNCHANGED notRepoVars

\* commitObjects that gives the commit no parent
commitObjectsNoParent(head, store) ==
    Let(CreateTreeObjectFromIndex(stage, store), LAMBDA treeObj :
    IF treeObj.st # "ok" THEN [st |-> "err", hash |-> <<>>, store |-> treeObj.store]
    ELSE createCommitObjectFromTree(treeObj.hash, <<>>, DEFAULT_MESSAGE, treeObj.store))

\* CommitHandler up to the commit object written
commitObjects(head, store) ==
    Let(CreateTreeObjectFromIndex(stage, store), LAMBDA treeObj :
    IF treeObj.st # "ok" THEN [st |-> "err", hash |-> <<>>, store |-> treeObj.store]
    ELSE createCommitObjectFromTree(treeObj.hash,
             IF head.exists THEN <<head.hash>> ELSE <<>>, DEFAULT_MESSAGE, treeObj.store))

CommitStart ==
    /\ pc = "idle" /\ RepoExists
    /\ made < MaxLocalCommits
    /\ \E head \in {ResolveRef(HEAD_NAME, FS)} :
         IF head.st # "ok"
         THEN /\ Done("fatal", H0("commit"))
              /\ UNCHANGED <<objects, made>>
         ELSE \E c \in {commitObjects(head, objects)} :
                /\ objects' = c.store
                /\ made' = made + 1
                /\ IF c.st # "ok" THEN Done("fatal", H0("commit"))
                   ELSE Goto("commit_ref", [hash |-> c.hash], H0("commit"))
    /\ UNCHANGED <<gitFiles, gitDirs, stage, work, srvRefs, srvObjects>>
    /\ UNCHANGED notRepoVars

\* UpdateRef("HEAD", ...), then getCurrentBranch for the message
CommitUpdateRef ==
    /\ pc = "commit_ref"
    /\ \E r \in {UpdateRef(HEAD_NAME, loc.hash, FS)} :
         /\ gitFiles' = r.fs.files
         /\ gitDirs' = r.fs.dirs
         /\ Done(IF r.st = "ok" /\ getCurrentBranch(r.fs).st = "ok" THEN "ok" ELSE "fatal",
                 hist)
    /\ UNCHANGED <<objects, stage, work, srvRefs, srvObjects, made>>
    /\ UNCHANGED notRepoVars

\* CreateBranch up to the os.Stat of the ref of the branch
branchObjects(branchName, wfiles, store) ==
    Let(CreateIndexFromWorkingTree(wfiles, store), LAMBDA x :
    IF x.st # "ok" THEN [st |-> "err", hash |-> <<>>, index |-> stage, store |-> x.store]
    ELSE Let(CreateTreeObjectFromIndex(x.index, x.store), LAMBDA treeObj :
         IF treeObj.st # "ok"
         THEN [st |-> "err", hash |-> <<>>, index |-> x.index, store |-> treeObj.store]
         ELSE Let(createCommitObjectFromTree(treeObj.hash, <<>>,
                      CREATE_BRANCH \o branchName, treeObj.store), LAMBDA commitObj :
              [st |-> commitObj.st, hash |-> commitObj.hash, index |-> x.index,
               store |-> commitObj.store])))

\* BranchStart without the os.Stat of the ref of the branch
BranchStartUnchecked ==
    /\ pc = "idle" /\ RepoExists
    /\ made < MaxLocalCommits
    /\ \E branchName \in NewBranchNames :
       \E c \in {branchObjects(branchName, work, objects)} :
         /\ stage' = c.index
         /\ objects' = c.store
         /\ made' = made + 1
         /\ IF c.st # "ok" THEN Done("err", HB("branch", branchName))
            ELSE Goto("branch_ref", [hash |-> c.hash, branchName |-> branchName],
                      HB("branch", branchName))
    /\ UNCHANGED <<gitFiles, gitDirs, work, srvRefs, srvObjects>>
    /\ UNCHANGED notRepoVars

BranchStart ==
    /\ pc = "idle" /\ RepoExists
    /\ made < MaxLocalCommits
    /\ \E branchName \in NewBranchNames :
       \E c \in {branchObjects(branchName, work, objects)} :
         /\ stage' = c.index
         /\ objects' = c.store
         /\ made' = made + 1
         /\ IF c.st # "ok" THEN Done("err", HB("branch", branchName))
            ELSE IF Exists(FS, Join(HEADS_DIR, branchName))
            THEN Done("err", HB("branch", branchName))
            ELSE Goto("branch_ref", [hash |-> c.hash, branchName |-> branchName],
                      HB("branch", branchName))
    /\ UNCHANGED <<gitFiles, gitDirs, work, srvRefs, srvObjects>>
    /\ UNCHANGED notRepoVars

BranchUpdateRef ==
    /\ pc = "branch_ref"
    /\ \E r \in {UpdateBranchRef(loc.branchName, loc.hash, FALSE, FS)} :
         /\ gitFiles' = r.fs.files
         /\ gitDirs' = r.fs.dirs
         /\ Done(IF r.st = "ok" THEN "ok" ELSE "err", hist)
    /\ UNCHANGED <<objects, stage, work, srvRefs, srvObjects, made>>
    /\ UNCHANGED notRepoVars

\* CheckoutBranch up to the commit checked out
CheckoutStart ==
    /\ pc = "idle" /\ RepoExists
    /\ \E branchName \in BranchNames :
       \E head \in {ResolveBranchRef(branchName, FALSE, FS)} :
         IF head.st # "ok" \/ ~head.exists
         THEN /\ Done("err", HB("checkout", branchName))
              /\ UNCHANGED <<objects, stage, work>>
         ELSE \E c \in {CheckoutCommit(head.hash, work, stage, objects)} :
                /\ work' = c.work
                /\ stage' = c.index
                /\ objects' = c.store
                /\ IF c.st # "ok" THEN Done(IF c.st = "panic" THEN "panic" ELSE "err",
                                            HB("checkout", branchName))
                   ELSE Goto("checkout_head", [branchName |-> branchName],
                             HB("checkout", branchName))
    /\ UNCHANGED <<gitFiles, gitDirs, srvRefs, srvObjects, made>>
    /\ UNCHANGED notRepoVars

\* updateRefsAfterCheckout: HEAD, then the HEAD of the remote
CheckoutHeadLocal ==
    /\ pc = "checkout_head"
    /\ \E r \in {UpdateHeadWithBranchRef(loc.branchName, FALSE, FS)} :
         /\ gitFiles' = r.fs.files
         /\ gitDirs' = r.fs.dirs
         /\ IF r.st # "ok" THEN Done("err", hist) ELSE Goto("checkout_remote", loc, hist)
    /\ UNCHANGED <<objects, stage, work, srvRefs, srvObjects, made>>
    /\ UNCHANGED notRepoVars

CheckoutHeadRemote ==
    /\ pc = "checkout_remote"
    /\ \E r \in {UpdateHeadWithBranchRef(loc.branchName, TRUE, FS)} :
         /\ gitFiles' = r.fs.files
         /\ gitDirs' = r.fs.dirs
         /\ Done(IF r.st = "ok" THEN "ok" ELSE "err", hist)
    /\ UNCHANGED <<objects, stage, work, srvRefs, srvObjects, made>>
    /\ UNCHANGED notRepoVars

-----------------------------------------------------------------------------
(* The remote repository, and what can happen to a pack on its way *)

\* "\0multi_ack ofs-delta", "first", "second", "unpack error", "ng refs/heads/"
CAPABILITIES ==
    <<0, 109, 117, 108, 116, 105, 95, 97, 99, 107, 32, 111, 102, 115, 45, 100, 101,
      108, 116, 97>>
FIRST == <<102, 105, 114, 115, 116>>
SECOND == <<115, 101, 99, 111, 110, 100>>
UNPACK_ERROR == <<117, 110, 112, 97, 99, 107, 32, 101, 114, 114, 111, 114>>
NG_REFS_HEADS == <<110, 103, 32, 114, 101, 102, 115, 47, 104, 101, 97, 100, 115, 47>>

\* A commit made on the remote: the file f with content c
RemoteCommit(c, parents, message, store) ==
    Let(AddFilesToIndex({FILE_F}, <<>>, FilePut(NoFiles, FILE_F, RegularFile(c)), store), LAMBDA a :
    Let(CreateTreeObjectFromIndex(a.index, a.store), LAMBDA t :
    createCommitObjectFromTree(t.hash, parents, message, t.store)))
Remote1 == RemoteCommit(<<97>>, <<>>, FIRST, EmptyStore)
Remote2 == RemoteCommit(<<98>>, <<Remote1.hash>>, SECOND, Remote1.store)

\* The remote at the start: empty, or two commits on master with dev left at
\* the first
Remotes ==
    {[refs |-> << >>, store |-> EmptyStore],
     [refs |-> MapPut(MapPut(<< >>, MASTER, Remote2.hash), DEV, Remote1.hash),
      store |-> Remote2.store]}

\* The ref advertisement: HEAD is master; the first ref carries the
\* capabilities
RefLines(refs) ==
    (IF MASTER \in DOMAIN refs THEN <<refs[MASTER] \o <<32>> \o HEAD_NAME>> ELSE <<>>)
        \o [j \in 1..Cardinality(DOMAIN refs) |->
               refs[Sorted(DOMAIN refs)[j]] \o <<32>> \o REFS_HEADS_SLASH
                   \o Sorted(DOMAIN refs)[j]]
Advertised(refs) ==
    <<SERVICE_LINE>>
        \o [j \in 1..Len(RefLines(refs)) |->
               RefLines(refs)[j] \o (IF j = 1 THEN CAPABILITIES ELSE <<>>)]

\* The answers to a ref discovery: the advertisement, no answer, or a body
\* that is not a pkt-line stream
DiscoveryResps == {LinesResp(Ok(Advertised(srvRefs))), HttpErr, LinesResp(Err)}

\* The pack of everything reachable from the wanted commits
RECURSIVE closureOf(_, _)
closureOf(wants, store) ==
    IF wants = {} THEN Ok({})
    ELSE Let(CHOOSE w \in wants : TRUE, LAMBDA w :
         Let(GetAllObjectsInCommit(w, store), LAMBDA g :
         IF g.st # "ok" THEN Err
         ELSE Let(closureOf(wants \ {w}, store), LAMBDA rest :
              IF rest.st # "ok" THEN Err ELSE Ok(g.out \cup rest.out))))
ServerPack(wants) ==
    Let(closureOf(wants, srvObjects), LAMBDA c :
    IF c.st # "ok" THEN Err ELSE CreatePackfile(Sorted(c.out), srvObjects))

\* Damage with a matching checksum: the first object made a tag, its length
\* changed, a byte left after the last object, a ref-delta added whose base is
\* nowhere
FirstObj(body) == At(body, PACKFILE_HEADER_LENGTH)
OrphanDelta ==
    <<PACKFILE_OBJ_REF_DELTA * 16 + 2>> \o [k \in 1..OBJECT_HASH_LENGTH_BYTES |-> 1]
        \o zlibCompressBytes(<<1, 1>>)
Corrupted(pack, kind) ==
    CASE kind = "none"     -> pack
      [] kind = "type"     -> Reseal(SetByte(PackBody(pack), PACKFILE_HEADER_LENGTH,
                                  FirstObj(pack) - ((FirstObj(pack) \div 16) % 8) * 16
                                      + PACKFILE_OBJ_TAG * 16))
      [] kind = "length"   -> Reseal(SetByte(PackBody(pack), PACKFILE_HEADER_LENGTH,
                                  (FirstObj(pack) \div 16) * 16
                                      + (((FirstObj(pack) % 16) + 1) % 16)))
      [] kind = "leftover" -> Reseal(PackBody(pack) \o <<0>>)
      [] kind = "delta"    -> Reseal(SetByte(PackBody(pack) \o OrphanDelta, 11,
                                             At(pack, 11) + 1))
      [] OTHER             -> Damaged(pack, kind)

CloneDamage ==
    {"none", "checksum", "version", "type", "delta", "length", "leftover", "count"}
PullDamage == {"none", "checksum"}

\* The answers to an upload-pack request: no answer, an answer that does not
\* start with NAK, or NAK and the pack, damaged or not
UploadPackResp(served, net, damage) ==
    IF net = "err" THEN HttpErr
    ELSE IF served.st # "ok" THEN HttpErr
    ELSE IF net = "nonak" THEN PackResp(SERVICE_LINE, served.out)
    ELSE PackResp(NAK, Corrupted(served.out, damage))

-----------------------------------------------------------------------------
(* clone and pull *)

\* CloneRepo of clone.go, and of the version that calls createRefs
CloneVariants == {"clone.go", "createRefs"}
NetOutcomes == {"ok", "err", "nonak"}

\* CloneRepo that goes on whatever ReadPackfile returns
cloneIgnoringReadError(readSt) == "clone_ref"

\* CloneRepo after ReadPackfile: log.Fatalf on an error
cloneAfterReadPackfile(readSt) ==
    IF readSt = "panic" THEN "panic"
    ELSE IF readSt # "ok" THEN "fatal"
    ELSE "clone_ref"

\* CloneRepo: refDiscovery, and the head found by uploadPackRequest
cloneDiscover(adv) ==
    Let(discoveredLines(adv), LAMBDA refsPktLines :
    IF refsPktLines.st # "ok" THEN Err ELSE cloneHeadHash(refsPktLines.out))

\* CloneRepo: the request for that head and the pack received
cloneFetch(headHash, resp) ==
    Let(uploadPackResponse(resp), LAMBDA packfile :
    IF packfile.st # "ok" THEN [st |-> "err"]
    ELSE [st |-> "ok", packfile |-> packfile.out, headHash |-> headHash])

CloneStart ==
    /\ pc = "idle" /\ ~RepoExists
    /\ \E variant \in CloneVariants, adv \in DiscoveryResps, net \in NetOutcomes,
          damage \in CloneDamage :
       \E r \in {initRepo(FS)} :
         /\ gitFiles' = r.fs.files
         /\ gitDirs' = r.fs.dirs
         /\ IF r.st # "ok" THEN Done("fatal", H0("clone"))
            ELSE \E d \in {cloneDiscover(adv)} :
                 IF d.st # "ok" THEN Done("fatal", H0("clone"))
                 ELSE \E f \in {cloneFetch(d.out, UploadPackResp(ServerPack({d.out}),
                                                                net, damage))} :
                   IF f.st # "ok" THEN Done("fatal", H0("clone"))
                   ELSE Goto("clone_read",
                             [packfile |-> f.packfile, headHash |-> f.headHash],
                             [H0("clone") EXCEPT !.variant = variant, !.damage = damage])
    /\ UNCHANGED <<objects, stage, work, srvRefs, srvObjects, made>>
    /\ UNCHANGED notRepoVars

CloneReadPackfile ==
    /\ pc = "clone_read"
    /\ \E r \in {ReadPackfile(loc.packfile, objects)} :
         /\ objects' = r.store
         /\ \E next \in {cloneAfterReadPackfile(r.st)} :
              IF next \in {"fatal", "panic"}
              THEN Done(next, [hist EXCEPT !.readRes = r.st])
              ELSE Goto(next, loc, [hist EXCEPT !.readRes = r.st])
    /\ UNCHANGED <<gitFiles, gitDirs, stage, work, srvRefs, srvObjects, made>>
    /\ UNCHANGED notRepoVars

\* refs/heads/master written
CloneWriteLocalRef ==
    /\ pc = "clone_ref"
    /\ \E r \in {writeMasterRef(loc.headHash, FS)} :
         /\ gitFiles' = r.fs.files
         /\ gitDirs' = r.fs.dirs
         /\ IF r.st # "ok" THEN Done("fatal", hist)
            ELSE Goto(IF hist.variant = "createRefs" THEN "clone_remote_ref"
                      ELSE "clone_checkout", loc, hist)
    /\ UNCHANGED <<objects, stage, work, srvRefs, srvObjects, made>>
    /\ UNCHANGED notRepoVars

\* createRefs: refs/remotes/origin/master written
CloneWriteRemoteRef ==
    /\ pc = "clone_remote_ref"
    /\ \E r \in {writeMasterRefRemote(loc.headHash, FS)} :
         /\ gitFiles' = r.fs.files
         /\ gitDirs' = r.fs.dirs
         /\ IF r.st # "ok" THEN Done("fatal", hist) ELSE Goto("clone_checkout", loc, hist)
    /\ UNCHANGED <<objects, stage, work, srvRefs, srvObjects, made>>
    /\ UNCHANGED notRepoVars

CloneCheckout ==
    /\ pc = "clone_checkout"
    /\ \E c \in {CheckoutCommit(loc.headHash, work, stage, objects)} :
         /\ work' = c.work
         /\ stage' = c.index
         /\ objects' = c.store
         /\ Done(IF c.st = "ok" THEN "ok" ELSE IF c.st = "panic" THEN "panic" ELSE "fatal",
                 hist)
    /\ UNCHANGED <<gitFiles, gitDirs, srvRefs, srvObjects, made>>
    /\ UNCHANGED notRepoVars

\* Pull: refDiscovery and getCurrentBranch; "fatal" is log.Fatalf, "err" an
\* error returned
pullDiscover(adv, fs) ==
    Let(refDiscovery(adv), LAMBDA refsMap :
    IF refsMap.st # "ok" THEN [st |-> "fatal"]
    ELSE Let(getCurrentBranch(fs), LAMBDA branchName :
         IF branchName.st # "ok" THEN [st |-> branchName.st]
         ELSE [st |-> "ok", refsMap |-> refsMap.out, branchName |-> branchName.name]))

\* Pull: the pack received and the head of the branch looked up
pullFetch(refsMap, branchName, resp) ==
    Let(uploadPackResponse(resp), LAMBDA packfile :
    IF packfile.st # "ok" THEN [st |-> "err"]
    ELSE IF branchName \notin DOMAIN refsMap THEN [st |-> "fatal"]
    ELSE [st |-> "ok", packfile |-> packfile.out, refsMap |-> refsMap,
          branchHeadHash |-> refsMap[branchName]])

PullStart ==
    /\ pc = "idle" /\ RepoExists
    /\ \E adv \in DiscoveryResps :
       \E d \in {pullDiscover(adv, FS)} :
         IF d.st # "ok" THEN Done(d.st, H0("pull"))
         ELSE \E served \in {ServerPack(wantObjHashes(d.refsMap))} :
              \E net \in NetOutcomes, damage \in PullDamage :
              \E f \in {pullFetch(d.refsMap, d.branchName,
                                  UploadPackResp(served, net, damage))} :
                IF f.st # "ok" THEN Done(f.st, H0("pull"))
                ELSE Goto("pull_read",
                          [packfile |-> f.packfile, refsMap |-> f.refsMap,
                           branchHeadHash |-> f.branchHeadHash,
                           todo |-> DOMAIN f.refsMap \ {HEAD_NAME}],
                          [H0("pull") EXCEPT !.damage = damage])
    /\ UNCHANGED <<gitFiles, gitDirs, objects, stage, work, srvRefs, srvObjects, made>>
    /\ UNCHANGED notRepoVars

PullReadPackfile ==
    /\ pc = "pull_read"
    /\ \E r \in {ReadPackfile(loc.packfile, objects)} :
         /\ objects' = r.store
         /\ IF r.st # "ok" THEN Done(r.st, [hist EXCEPT !.readRes = r.st])
            ELSE Goto("pull_checkout", loc, [hist EXCEPT !.readRes = r.st])
    /\ UNCHANGED <<gitFiles, gitDirs, stage, work, srvRefs, srvObjects, made>>
    /\ UNCHANGED notRepoVars

PullCheckout ==
    /\ pc = "pull_checkout"
    /\ \E c \in {CheckoutCommit(loc.branchHeadHash, work, stage, objects)} :
         /\ work' = c.work
         /\ stage' = c.index
         /\ objects' = c.store
         /\ IF c.st # "ok" THEN Done(c.st, hist)
            ELSE IF loc.todo = {} THEN Done("ok", hist)
            ELSE Goto("pull_refs", loc, hist)
    /\ UNCHANGED <<gitFiles, gitDirs, srvRefs, srvObjects, made>>
    /\ UNCHANGED notRepoVars

\* One turn of the loop of updateRefsAfterPull: the map is gone through in
\* any order
pullUpdateRef(branchName, refHash, fs) ==
    Let(UpdateBranchRef(branchName, refHash, FALSE, fs), LAMBDA l :
    IF l.st # "ok" THEN l
    ELSE UpdateBranchRef(branchName, refHash, TRUE, l.fs))

PullUpdateRefs ==
    /\ pc = "pull_refs"
    /\ \E branchName \in loc.todo :
       \E r \in {pullUpdateRef(branchName, loc.refsMap[branchName], FS)} :
         /\ gitFiles' = r.fs.files
         /\ gitDirs' = r.fs.dirs
         /\ IF r.st # "ok" THEN Done("err", hist)
            ELSE IF loc.todo = {branchName} THEN Done("ok", hist)
            ELSE Goto("pull_refs", [loc EXCEPT !.todo = @ \ {branchName}], hist)
    /\ UNCHANGED <<objects, stage, work, srvRefs, srvObjects, made>>
    /\ UNCHANGED notRepoVars

-----------------------------------------------------------------------------
(* push *)

\* The remote on a receive-pack request: the pack is unpacked, the old value
\* compared with the ref and the new commit looked for; the report says what
\* became of it
SrvRes(accepted, lines, refs, store) ==
    [accepted |-> accepted, lines |-> lines, refs |-> refs, store |-> store]
serverUpdate(name, old, new, unpacked, refs, store) ==
    IF unpacked.st # "ok"
    THEN SrvRes(FALSE, <<UNPACK_ERROR, NG_REFS_HEADS \o name>>, refs, store)
    ELSE IF \/ (name \in DOMAIN refs /\ refs[name] # old)
            \/ (name \notin DOMAIN refs /\ old # ZERO_HASH)
            \/ GetAllObjectsInCommit(new, unpacked.store).st # "ok"
    THEN SrvRes(FALSE, <<UNPACK_OK, NG_REFS_HEADS \o name>>, refs, store)
    ELSE SrvRes(TRUE, <<UNPACK_OK, OK_REFS_HEADS \o name>>, MapPut(refs, name, new),
                unpacked.store)
ServerReceive(body, refs, store) ==
    serverUpdate(Slice(body.line, 82 + Len(REFS_HEADS_SLASH), IndexByte(body.line, 0)),
                 Slice(body.line, 0, 40), Slice(body.line, 41, 81),
                 ReadPackfile(body.packfile, store), refs, store)

\* The report-status of the remote: its lines as pkt-lines, then a flush
ReportBody(lines) ==
    createPktLineStream([k \in 1..Len(lines) |-> createPktLine(lines[k])])
\* "<html>"
NOT_PKT_LINES == <<60, 104, 116, 109, 108, 62>>

\* What reaches the client: the report; the report with a second flush
\* after it; nothing (the request or the answer was lost); a body that is
\* not a pkt-line stream; the first line only, between two flushes
Transports == {"delivered", "padded", "lost_request", "lost_response", "garbled", "short"}
ReceivePackResp(transport, srv) ==
    CASE transport = "delivered" -> BodyResp(ReportBody(srv.lines))
      [] transport = "padded"    -> BodyResp(ReportBody(srv.lines) \o FLUSH_PKT)
      [] transport = "short"     -> BodyResp(FLUSH_PKT \o ReportBody(<<srv.lines[1]>>))
      [] transport = "garbled"   -> BodyResp(NOT_PKT_LINES)
      [] OTHER                   -> HttpErr

\* The push command: the local head is what HEAD resolves to; the remote
\* head is the remote-tracking ref of the current branch or the ref of the
\* branch on the remote, "" when there is none
pushHeads(fs, refs) ==
    Let(ResolveRef(HEAD_NAME, fs), LAMBDA head :
    IF head.st # "ok" \/ ~head.exists THEN [st |-> "err"]
    ELSE Let(getCurrentBranch(fs), LAMBDA branchName :
         IF branchName.st # "ok" THEN [st |-> "err"]
         ELSE Let(ResolveBranchRef(branchName.name, TRUE, fs), LAMBDA tracking :
              [st |-> "ok", localHead |-> head.hash,
               remoteHeads |->
                   {IF tracking.st = "ok" /\ tracking.exists THEN tracking.hash ELSE <<>>,
                    IF branchName.name \in DOMAIN refs THEN refs[branchName.name]
                    ELSE <<>>}])))

\* Push up to the branch looked up
pushMissing(localHead, remoteHead, fs, store) ==
    Let(calculateMissingObjects(localHead, remoteHead, store), LAMBDA missingObjHashes :
    IF missingObjHashes.st # "ok" THEN [st |-> missingObjHashes.st]
    ELSE IF Cardinality(missingObjHashes.out) = 0 THEN [st |-> "uptodate"]
    ELSE Let(getCurrentBranch(fs), LAMBDA branchName :
         IF branchName.st # "ok" THEN [st |-> branchName.st]
         ELSE [st |-> "ok", branchName |-> branchName.name,
               missingObjHashes |-> missingObjHashes.out]))

\* Push: the pack built; order is where the map of the missing objects is
\* started from
pushPack(missingObjHashes, order, store) ==
    CreatePackfile(Rotated(Sorted(missingObjHashes),
                           1 + (order % Cardinality(missingObjHashes))), store)

MaxPackOrders == 2   \* orders the missing objects are packed in

PushStart ==
    /\ pc = "idle" /\ RepoExists
    /\ \E heads \in {pushHeads(FS, srvRefs)} :
         IF heads.st # "ok" THEN Done("fatal", H0("push"))
         ELSE \E remoteHead \in heads.remoteHeads :
              \E m \in {pushMissing(heads.localHead, remoteHead, FS, objects)} :
              \E h \in {[H0("push") EXCEPT !.localHead = heads.localHead,
                                           !.remoteHead = remoteHead]} :
                IF m.st # "ok" THEN Done(m.st, h)
                ELSE \E order \in 0..(MaxPackOrders - 1) :
                     \E packfile \in {pushPack(m.missingObjHashes, order, objects)} :
                       IF packfile.st # "ok" THEN Done("err", h)
                       ELSE Goto("push_send",
                                 [branchName |-> m.branchName,
                                  localHead |-> heads.localHead,
                                  remoteHead |-> remoteHead, packfile |-> packfile.out],
                                 [h EXCEPT !.packBuilt = TRUE])
    /\ UNCHANGED <<gitFiles, gitDirs, objects, stage, work, srvRefs, srvObjects, made>>
    /\ UNCHANGED notRepoVars

\* receivePackRequest: the request reaches the remote or not, and so does
\* the report
PushReceivePack ==
    /\ pc = "push_send"
    /\ \E received \in {ServerReceive(receivePackReqBody(loc.branchName, loc.localHead,
                                            loc.remoteHead, loc.packfile),
                                        srvRefs, srvObjects)} :
       \E transport \in Transports :
       \E srv \in {IF transport = "lost_request"
                   THEN SrvRes(FALSE, <<>>, srvRefs, srvObjects)
                   ELSE received} :
       \E report \in {receivePackRequest(loc.branchName, ReceivePackResp(transport, srv))} :
       \E h \in {[hist EXCEPT !.sent = TRUE, !.transport = transport,
                              !.srvAccepted = srv.accepted, !.report = report]} :
         /\ srvRefs' = srv.refs
         /\ srvObjects' = srv.store
         /\ IF report # "ok"
            THEN Done(report, h)
            ELSE Goto("push_local", loc, h)
    /\ UNCHANGED <<gitFiles, gitDirs, objects, stage, work, made>>
    /\ UNCHANGED notRepoVars

PushUpdateLocalRef ==
    /\ pc = "push_local"
    /\ \E r \in {UpdateBranchRef(loc.branchName, loc.localHead, FALSE, FS)} :
         /\ gitFiles' = r.fs.files
         /\ gitDirs' = r.fs.dirs
         /\ IF r.st # "ok" THEN Done("err", hist) ELSE Goto("push_remote", loc, hist)
    /\ UNCHANGED <<objects, stage, work, srvRefs, srvObjects, made>>
    /\ UNCHANGED notRepoVars

PushUpdateRemoteRef ==
    /\ pc = "push_remote"
    /\ \E r \in {UpdateBranchRef(loc.branchName, loc.localHead, TRUE, FS)} :
         /\ gitFiles' = r.fs.files
         /\ gitDirs' = r.fs.dirs
         /\ Done(IF r.st = "ok" THEN "ok" ELSE "err", hist)
    /\ UNCHANGED <<objects, stage, work, srvRefs, srvObjects, made>>
    /\ UNCHANGED notRepoVars

-----------------------------------------------------------------------------
(* The specification of the repository runs *)

Init ==
    /\ DeltaIdle
    /\ PackIdle
    /\ PktIdle
    /\ gitFiles = << >> /\ gitDirs = {}
    /\ objects = EmptyStore /\ stage = <<>> /\ work = NoFiles
    /\ \E remote \in Remotes : srvRefs = remote.refs /\ srvObjects = remote.store
    /\ made = 0
    /\ pc = "idle" /\ loc = NoLoc /\ hist = NoHist

Next ==
    \/ InitHandler
    \/ EditFile
    \/ AddHandler
    \/ CommitStart
    \/ CommitUpdateRef
    \/ BranchStart
    \/ BranchUpdateRef
    \/ CheckoutStart
    \/ CheckoutHeadLocal
    \/ CheckoutHeadRemote
    \/ CloneStart
    \/ CloneReadPackfile
    \/ CloneWriteLocalRef
    \/ CloneWriteRemoteRef
    \/ CloneCheckout
    \/ PullStart
    \/ PullReadPackfile
    \/ PullCheckout
    \/ PullUpdateRefs
    \/ PushStart
    \/ PushReceivePack
    \/ PushUpdateLocalRef
    \/ PushUpdateRemoteRef
    \/ Finish

Spec == Init /\ [][Next]_vars

-----------------------------------------------------------------------------
(* Claims about the repository runs *)

\* The direct ref files under refs/heads and refs/remotes/origin (a file that
\* starts with "ref: " is a symbolic ref)
DirectRefs(fileMap) ==
    {p \in DOMAIN fileMap :
        /\ Dir(p) \in {HEADS_DIR, ORIGIN_DIR}
        /\ ~HasPrefix(fileMap[p], REF_PREFIX)}
IsCommitIn(hash, store) ==
    Let(readObjectFile(hash, store), LAMBDA obj : obj.st = "ok" /\ obj.type = Commit)
RefsNameCommits ==
    \A p \in DirectRefs(gitFiles) : IsCommitIn(TrimSpace(gitFiles[p]), objects)
\* A step that writes a ref file writes the hash of a commit the store held
\* before the step.
RefWrittenAfterObject ==
    \A p \in DirectRefs(gitFiles') :
        (IF p \in DOMAIN gitFiles THEN gitFiles[p] # gitFiles'[p] ELSE TRUE)
            => IsCommitIn(TrimSpace(gitFiles'[p]), objects)

\* C1: in every state of commit, branch creation, clone and pull (and of the
\* other commands), each direct ref file under refs/heads or
\* refs/remotes/origin holds the hash of a commit that is in the object
\* store, and the commit was in the store before the ref was written.
C1_ObjectBeforeRef == []RefsNameCommits /\ [][RefWrittenAfterObject]_vars

\* A pull has written the local and the remote-tracking refs of master and dev.
C1_Witness ==
    /\ pc = "done" /\ hist.cmd = "pull" /\ hist.out = "ok"
    /\ {Join(HEADS_DIR, MASTER), Join(HEADS_DIR, DEV), Join(ORIGIN_DIR, MASTER),
        Join(ORIGIN_DIR, DEV)} \subseteq DirectRefs(gitFiles)
    /\ gitFiles # hist.files0
    /\ IsCommitIn(gitFiles[Join(ORIGIN_DIR, DEV)], objects)

HexDigits == (48..57) \cup (97..102)
IsHexHash(h) == Len(h) = OBJECT_HASH_LENGTH_STRING /\ \A k \in 1..Len(h) : h[k] \in HexDigits
\* What resolving HEAD may return: no error, and "does not exist yet" or the
\* hash of a commit
Resolved(r) ==
    /\ r.st = "ok"
    /\ r.exists => /\ IsHexHash(r.hash)
                   /\ ~HasPrefix(r.hash, REF_PREFIX)
                   /\ IsCommitIn(r.hash, objects)

\* C2: in every state of a repository whose HEAD file exists, ResolveRef("HEAD")
\* and ResolveHead return "does not exist yet" or a 40-digit hex commit hash,
\* never a string that begins with "ref: "; so does ResolveHead for the
\* remote when refs/remotes/origin/HEAD exists.  (Neither follows more than
\* the one link of HEAD.)
C2_HeadResolves ==
    HEAD_NAME \in DOMAIN gitFiles =>
        /\ Resolved(ResolveRef(HEAD_NAME, FS))
        /\ Resolved(ResolveHead(FALSE, FS))
        /\ Join(ORIGIN_DIR, HEAD_NAME) \in DOMAIN gitFiles => Resolved(ResolveHead(TRUE, FS))

\* After a clone HEAD names refs/heads/master, which holds the hash and a
\* newline; HEAD resolves to the hash.
C2_Witness ==
    /\ pc = "done" /\ hist.cmd = "clone" /\ hist.out = "ok"
    /\ HasPrefix(gitFiles[HEAD_NAME], REF_PREFIX)
    /\ ResolveRef(HEAD_NAME, FS).exists
    /\ gitFiles[Join(HEADS_DIR, MASTER)] = ResolveRef(HEAD_NAME, FS).hash \o <<10>>

\* What the claim lists as failures of a push: the missing objects cannot be
\* computed, no pack is built of them, the request or its answer is lost,
\* the answer is not an acceptance
MissingFails(h) ==
    \/ GetAllObjectsInCommit(h.localHead, objects).st # "ok"
    \/ h.remoteHead # <<>> /\ GetAllObjectsInCommit(h.remoteHead, objects).st # "ok"
PackFails(h) ==
    /\ ~h.packBuilt
    /\ ~MissingFails(h)
    /\ Let(GetAllObjectsInCommit(h.localHead, objects).out, LAMBDA localObjs :
       Let(IF h.remoteHead # <<>>
           THEN GetAllObjectsInCommit(h.remoteHead, objects).out ELSE {},
           LAMBDA remoteObjs :
           \E obj \in localObjs \ remoteObjs :
               readObjectFile(obj, objects).content = <<>>))
RequestFails(h) == h.sent /\ h.transport \in {"lost_request", "lost_response"}
ValidationFails(h) ==
    h.sent /\ h.transport \notin {"lost_request", "lost_response"} /\ h.report # "ok"

DiffEmpty(h) ==
    /\ h.remoteHead # <<>>
    /\ Let(GetAllObjectsInCommit(h.localHead, objects), LAMBDA localObjs :
       Let(GetAllObjectsInCommit(h.remoteHead, objects), LAMBDA remoteObjs :
           /\ localObjs.st = "ok"
           /\ remoteObjs.st = "ok"
           /\ localObjs.out \ remoteObjs.out = {}))

\* C4: a push for which the objects reachable from the local head less those
\* reachable from the remote head are none reports up-to-date at once: no
\* pack built, no receive-pack request sent, every ref file as it was.
C4_UpToDate ==
    (hist.cmd = "push" /\ hist.localHead # <<>> /\ DiffEmpty(hist)) =>
        /\ pc = "done" /\ hist.out = "uptodate"
        /\ ~hist.packBuilt /\ ~hist.sent
        /\ gitFiles = hist.files0

\* A push of a head the remote has already.
C4_Witness ==
    /\ pc = "done" /\ hist.cmd = "push" /\ hist.out = "uptodate"
    /\ DiffEmpty(hist)
    /\ hist.localHead \in DOMAIN srvObjects

NoBranchRefs == \A p \in DOMAIN gitFiles : Dir(p) \notin {HEADS_DIR, ORIGIN_DIR}

\* C5: a clone in which ReadPackfile does not succeed has ended (log.Fatalf,
\* or the panic of the reader) and there is no file under refs/heads or
\* refs/remotes/origin.
C5_CloneAbortsOnBadPack ==
    (hist.cmd = "clone" /\ hist.readRes \notin {"none", "ok"}) =>
        /\ pc = "done" /\ hist.out \in {"fatal", "panic"}
        /\ NoBranchRefs

\* A clone that received a pack with a byte after its last object.
C5_Witness ==
    /\ pc = "done" /\ hist.cmd = "clone" /\ hist.out = "fatal"
    /\ hist.damage = "leftover" /\ hist.readRes = "err"
    /\ NoBranchRefs
    /\ objects # EmptyStore

-----------------------------------------------------------------------------
(* Pkt-line runs: payloads framed and read back, reports of a remote read *)

MaxPayloadLen == 2    \* longest payload drawn byte by byte
MaxPktLines   == 2    \* longest list of payloads, longest report

\* "a" and the newline; "a\r\n" and "\r" besides
PktBytes == {97, 10}
PktPayloads == SeqsUpTo(PktBytes, MaxPayloadLen) \cup {<<97, 13, 10>>, <<13>>}

\* The lines a remote reports with
ReportLines ==
    {UNPACK_OK, UNPACK_ERROR, OK_REFS_HEADS \o MASTER, NG_REFS_HEADS \o MASTER,
     OK_REFS_HEADS \o DEV}

\* How the report is laid out in the body of the response: the pkt-lines and
\* a flush; a second flush after it or before it; no flush; the last byte
\* missing; no pkt-lines at all; a length below four
ReportShapes == {"flush", "flush_twice", "led", "unterminated", "cut", "text", "tiny"}
SHORT_LENGTH == <<48, 48, 48, 49>>
Shaped(lines, shape) ==
    CASE shape = "flush"        -> ReportBody(lines)
      [] shape = "flush_twice"  -> ReportBody(lines) \o FLUSH_PKT
      [] shape = "led"          -> FLUSH_PKT \o ReportBody(lines)
      [] shape = "unterminated" -> Slice(ReportBody(lines), 0, Len(ReportBody(lines)) - 4)
      [] shape = "cut"          -> Slice(ReportBody(lines), 0, Len(ReportBody(lines)) - 1)
      [] shape = "text"         -> NOT_PKT_LINES
      [] shape = "tiny"         -> SHORT_LENGTH \o ReportBody(lines)

InitPkt ==
    /\ DeltaIdle
    /\ PackIdle
    /\ RepoIdle
    /\ \/ kKind = "frames" /\ kPayloads \in SeqsUpTo(PktPayloads, MaxPktLines)
       \/ kKind = "response" /\ kPayloads \in SeqsUpTo(ReportLines, MaxPktLines)
    /\ kBody = <<>>
    /\ kRes = NoRes
    /\ kPhase = "input"

\* The payloads are framed by createPktLine and joined by createPktLineStream.
CreatePktLineStreamCall ==
    /\ kKind = "frames" /\ kPhase = "input"
    /\ kBody' = createPktLineStream([k \in 1..Len(kPayloads) |-> createPktLine(kPayloads[k])])
    /\ kPhase' = "framed"
    /\ UNCHANGED <<kKind, kPayloads, kRes>>
    /\ UNCHANGED notPktVars

ReadPktLinesCall ==
    /\ kKind = "frames" /\ kPhase = "framed"
    /\ kRes' = readPktLines(kBody)
    /\ kPhase' = "done"
    /\ UNCHANGED <<kKind, kPayloads, kBody>>
    /\ UNCHANGED notPktVars

\* The remote answers a receive-pack request for master with status 200.
RemoteReports ==
    /\ kKind = "response" /\ kPhase = "input"
    /\ \E shape \in ReportShapes : kBody' = Shaped(kPayloads, shape)
    /\ kPhase' = "framed"
    /\ UNCHANGED <<kKind, kPayloads, kRes>>
    /\ UNCHANGED notPktVars

ReceivePackRequestCall ==
    /\ kKind = "response" /\ kPhase = "framed"
    /\ kRes' = [st |-> receivePackRequest(MASTER, BodyResp(kBody)), out |-> <<>>]
    /\ kPhase' = "done"
    /\ UNCHANGED <<kKind, kPayloads, kBody>>
    /\ UNCHANGED notPktVars

NextPkt ==
    \/ CreatePktLineStreamCall
    \/ ReadPktLinesCall
    \/ RemoteReports
    \/ ReceivePackRequestCall

SpecPkt == InitPkt /\ [][NextPkt]_vars

-----------------------------------------------------------------------------
(* Claims about pkt-lines *)

EndsWithNewline(payload) == payload # <<>> /\ payload[Len(payload)] = 10
WithNewline(payload) == IF EndsWithNewline(payload) THEN payload ELSE payload \o <<10>>
NewlineStripped(payload) ==
    IF EndsWithNewline(payload) THEN SubSeq(payload, 1, Len(payload) - 1) ELSE payload
\* The frame of a payload: four hex digits of its length (newline included)
\* plus 4, then the payload
FrameOf(payload) == Hex04(Len(WithNewline(payload)) + 4) \o WithNewline(payload)

\* C11: for every list of payloads, the stream createPktLineStream builds
\* from createPktLine of each payload is the frames followed by a single
\* 0000, each frame's four hex digits being the payload length (newline
\* included) plus 4, and readPktLines of that stream returns exactly those
\* payloads, in order, with the trailing newline stripped.
C11_PktRoundTrip ==
    (kKind = "frames" /\ kPhase = "done") =>
        /\ kBody = Concat([k \in 1..Len(kPayloads) |-> FrameOf(kPayloads[k])]) \o FLUSH_PKT
        /\ kRes = Ok([k \in 1..Len(kPayloads) |-> NewlineStripped(kPayloads[k])])

\* The pkt-line streams whose lines are "unpack ok" and "ok refs/heads/<branch>",
\* each with or without its newline, ended by a flush
PktFrames(line) ==
    {Hex04(Len(line) + 4) \o line, Hex04(Len(line) + 5) \o line \o <<10>>}
AcceptanceBodies(branchName) ==
    {unpack \o ok \o FLUSH_PKT :
        unpack \in PktFrames(UNPACK_OK), ok \in PktFrames(OK_REFS_HEADS \o branchName)}

\* C12: receivePackRequest succeeds exactly when the body of the status-200
\* response is a pkt-line stream whose lines are "unpack ok" followed by
\* "ok refs/heads/<branch>" and a terminating flush; for every other body it
\* returns an error.
C12_ReceivePackAcceptsExactlyReport ==
    (kKind = "response" /\ kPhase = "done") =>
        kRes.st = IF kBody \in AcceptanceBodies(MASTER) THEN "ok" ELSE "err"

-----------------------------------------------------------------------------
(* Index runs: in a repository made by init the user writes and removes
   files of the working tree and runs add, reset, commit and status.  The
   index is the file .git/index here. *)

\* "a", ".gitignore"
FILE_A == <<97>>
GITIGNORE == <<46, 103, 105, 116, 105, 103, 110, 111, 114, 101>>
IndexPaths == {FILE_A, GITIGNORE}
\* "x", "y"
IndexContents == {<<120>>, <<121>>}

\* What is recorded of the last command: its arguments, what status
\* returned, and for an add of one path that was not in the index (and a
\* reset of that path right after it) the entries the index had before
NoAdded == [path |-> <<>>, entries0 |-> <<>>]
X0(cmd, paths) ==
    [cmd |-> cmd, paths |-> paths, out |-> "ok", added |-> NoAdded,
     status |-> StatusErr(<<>>)]
IndexPathsOf(fs) == {ReadIndex(fs).entries[k].path : k \in 1..Len(ReadIndex(fs).entries)}

InitIndex ==
    /\ DeltaIdle
    /\ PackIdle
    /\ PktIdle
    /\ gitFiles = initRepo([files |-> << >>, dirs |-> {}]).fs.files
    /\ gitDirs = initRepo([files |-> << >>, dirs |-> {}]).fs.dirs
    /\ objects = EmptyStore /\ stage = <<>> /\ work = NoFiles
    /\ srvRefs = << >> /\ srvObjects = << >> /\ made = 0
    /\ pc = "idle" /\ loc = NoLoc
    /\ hist = X0("init", {})

WriteWorkingFile ==
    /\ \E path \in IndexPaths, c \in IndexContents :
         /\ (IF path \in DOMAIN work THEN work[path].content # c ELSE TRUE)
         /\ work' = FilePut(work, path, RegularFile(c))
         /\ hist' = X0("write", {})
    /\ UNCHANGED <<gitFiles, gitDirs, objects, stage, srvRefs, srvObjects, made, pc, loc>>
    /\ UNCHANGED notRepoVars

RemoveWorkingFile ==
    /\ \E path \in DOMAIN work :
         /\ work' = [p \in (DOMAIN work) \ {path} |-> work[p]]
         /\ hist' = X0("rm", {})
    /\ UNCHANGED <<gitFiles, gitDirs, objects, stage, srvRefs, srvObjects, made, pc, loc>>
    /\ UNCHANGED notRepoVars

\* add <file> ...: every file must exist
AddFiles ==
    /\ \E paths \in (SUBSET IndexPaths) \ {{}} :
         IF \E path \in paths : path \notin DOMAIN work
         THEN /\ hist' = [X0("add", paths) EXCEPT !.out = "fatal"]
              /\ UNCHANGED <<gitFiles, gitDirs, objects>>
         ELSE \E r \in {AddFilesToIndexFile(paths, FS, work, objects)} :
                /\ gitFiles' = r.fs.files
                /\ gitDirs' = r.fs.dirs
                /\ objects' = r.store
                /\ hist' = [X0("add", paths) EXCEPT
                                !.out = IF r.st = "ok" THEN "ok" ELSE "fatal",
                                !.added = IF r.st = "ok" /\ Cardinality(paths) = 1
                                             /\ paths \cap IndexPathsOf(FS) = {}
                                          THEN [path |-> CHOOSE path \in paths : TRUE,
                                                entries0 |-> ReadIndex(FS).entries]
                                          ELSE NoAdded]
    /\ UNCHANGED <<stage, work, srvRefs, srvObjects, made, pc, loc>>
    /\ UNCHANGED notRepoVars

\* add .
AddAll ==
    /\ \E r \in {AddFilesToIndexFile(getWorkingTreeFilePaths(work), FS, work, objects)} :
         /\ gitFiles' = r.fs.files
         /\ gitDirs' = r.fs.dirs
         /\ objects' = r.store
         /\ hist' = [X0("add", getWorkingTreeFilePaths(work)) EXCEPT
                         !.out = IF r.st = "ok" THEN "ok" ELSE "fatal"]
    /\ UNCHANGED <<stage, work, srvRefs, srvObjects, made, pc, loc>>
    /\ UNCHANGED notRepoVars

\* reset <file> ...: every file must exist
ResetHandler ==
    /\ \E paths \in (SUBSET IndexPaths) \ {{}} :
         IF \E path \in paths : path \notin DOMAIN work
         THEN /\ hist' = [X0("reset", paths) EXCEPT !.out = "fatal"]
              /\ UNCHANGED <<gitFiles, gitDirs>>
         ELSE \E r \in {RemoveFilesFromIndex(paths, FS)} :
                /\ gitFiles' = r.fs.files
                /\ gitDirs' = r.fs.dirs
                /\ hist' = [X0("reset", paths) EXCEPT
                                !.out = IF r.st = "ok" THEN "ok" ELSE "fatal",
                                !.added = IF r.st = "ok" /\ hist.cmd = "add"
                                             /\ paths = {hist.added.path}
                                          THEN hist.added ELSE NoAdded]
    /\ UNCHANGED <<objects, stage, work, srvRefs, srvObjects, made, pc, loc>>
    /\ UNCHANGED notRepoVars

\* CommitHandler with the tree made of the index file
commitIndexFile(fs, store) ==
    Let(ResolveRef(HEAD_NAME, fs), LAMBDA head :
    IF head.st # "ok" THEN IndexFileRes("fatal", fs, store)
    ELSE Let(ReadIndex(fs), LAMBDA indexEntries :
    IF indexEntries.st # "ok" THEN IndexFileRes("fatal", fs, store)
    ELSE Let(CreateTreeObjectFromIndex(indexEntries.entries, store), LAMBDA treeObj :
    IF treeObj.st # "ok" THEN IndexFileRes("fatal", fs, treeObj.store)
    ELSE Let(createCommitObjectFromTree(treeObj.hash,
                 IF head.exists THEN <<head.hash>> ELSE <<>>, DEFAULT_MESSAGE,
                 treeObj.store), LAMBDA commitObj :
    IF commitObj.st # "ok" THEN IndexFileRes("fatal", fs, commitObj.store)
    ELSE Let(UpdateRef(HEAD_NAME, commitObj.hash, fs), LAMBDA r :
         IndexFileRes(IF r.st = "ok" /\ getCurrentBranch(r.fs).st = "ok"
                      THEN "ok" ELSE "fatal", r.fs, commitObj.store))))))

CommitIndex ==
    /\ made < MaxLocalCommits
    /\ \E r \in {commitIndexFile(FS, objects)} :
         /\ gitFiles' = r.fs.files
         /\ gitDirs' = r.fs.dirs
         /\ objects' = r.store
         /\ made' = made + 1
         /\ hist' = [X0("commit", {}) EXCEPT !.out = r.st]
    /\ UNCHANGED <<stage, work, srvRefs, srvObjects, pc, loc>>
    /\ UNCHANGED notRepoVars

StatusHandler ==
    /\ \E r \in {GetRepoStatus(FS, work, objects)} :
         /\ objects' = r.store
         /\ hist' = [X0("status", {}) EXCEPT
                         !.out = IF r.st = "ok" THEN "ok" ELSE "fatal",
                         !.status = [r EXCEPT !.store = <<>>]]
    /\ UNCHANGED <<gitFiles, gitDirs, stage, work, srvRefs, srvObjects, made, pc, loc>>
    /\ UNCHANGED notRepoVars

\* The working tree and the index
NextIndex ==
    \/ WriteWorkingFile
    \/ RemoveWorkingFile
    \/ AddFiles
    \/ AddAll
    \/ ResetHandler

SpecIndex == InitIndex /\ [][NextIndex]_vars

\* The same with commits and the status asked for
NextStatus ==
    \/ NextIndex
    \/ CommitIndex
    \/ StatusHandler

SpecStatus == InitIndex /\ [][NextStatus]_vars

-----------------------------------------------------------------------------
(* Claims about status *)

\* The content hash of a path in the working tree, in the index and in the
\* tree of the HEAD commit; <<>> where the path is absent
HeadCommitExists == ResolveRef(HEAD_NAME, FS).st = "ok" /\ ResolveRef(HEAD_NAME, FS).exists
HeadTreeEntries ==
    populateTreeEntriesMap(<<>>,
        readTreeObjectFile(readCommitObjectFile(ResolveRef(HEAD_NAME, FS).hash,
                                                objects).treeHash, objects),
        <<>>, objects).map
WHash(path) ==
    IF path \in DOMAIN work THEN hashObjectWithoutWrite(Blob, work[path].content, objects).hash
    ELSE <<>>
IHash(path) ==
    IF path \in IndexPathsOf(FS)
    THEN HexEncode(entriesMap(ReadIndex(FS).entries, <<>>)[path].sha1)
    ELSE <<>>
HHash(path) == IF path \in DOMAIN HeadTreeEntries THEN HeadTreeEntries[path] ELSE <<>>

\* The row of the table for the hashes (w, i, h) of a path: its state and
\* the list that holds it; "none" for a combination the table does not list
TableRow(w, i, h) ==
    CASE w # <<>> /\ i = <<>> /\ h = <<>>           -> <<"untrackedFiles", "Untracked">>
      [] w # <<>> /\ i = w /\ h = <<>>              -> <<"stagedFiles", "AddedStaged">>
      [] w # <<>> /\ i # <<>> /\ w # i /\ h = i     -> <<"notStagedFiles", "ModifiedNotStaged">>
      [] w # <<>> /\ i = w /\ h # <<>> /\ h # i     -> <<"stagedFiles", "ModifiedStaged">>
      [] w = <<>> /\ i # <<>> /\ h = i              -> <<"notStagedFiles", "DeletedNotStaged">>
      [] w = <<>> /\ i = <<>> /\ h # <<>>           -> <<"stagedFiles", "DeletedStaged">>
      [] w # <<>> /\ i = w /\ h = w                 -> <<"unmodifiedFiles", "Unmodified">>
      [] OTHER                                      -> <<"none", "none">>

StatusTableHolds(path) ==
    TableRow(WHash(path), IHash(path), HHash(path)) # <<"none", "none">>
        => /\ hist.out = "ok"
           /\ \A list \in {"stagedFiles", "notStagedFiles", "untrackedFiles",
                           "unmodifiedFiles"} :
                {f \in hist.status[list] : f.path = path}
                    = IF list = TableRow(WHash(path), IHash(path), HHash(path))[1]
                      THEN {FileStatus(path,
                                TableRow(WHash(path), IHash(path), HHash(path))[2])}
                      ELSE {}

\* C13: when a HEAD commit exists, GetRepoStatus classifies each path by the
\* content hashes of the working tree W, the index I and the HEAD tree H as
\* the table says: (f, -, -) Untracked; (f, f, -) Added staged; (f', f, f)
\* Modified not staged; (f', f', f) Modified staged; (-, f, f) Deleted not
\* staged; (-, -, f) Deleted staged; (f, f, f) Unmodified.
C13_StatusTable ==
    (hist.cmd = "status" /\ HeadCommitExists) =>
        \A path \in IndexPaths : StatusTableHolds(path)

\* The table for the paths that do not start with ".git"
StatusTableOrdinaryPaths ==
    (hist.cmd = "status" /\ HeadCommitExists) =>
        \A path \in {p \in IndexPaths : ~HasPrefix(p, DOT_GIT)} : StatusTableHolds(path)

-----------------------------------------------------------------------------
(* Claims about the index file *)

EntriesOf(paths, entries) == SelectSeq(entries, LAMBDA entry : entry.path \in paths)

\* C14: after any sequence of add and reset the index file read back by
\* ReadIndex passes its checksum and lists its entries in strictly
\* increasing path order (at most one entry per path); after an add every
\* path added has one entry, the one of the file as it is now, also when the
\* path was in the index before.
C14_IndexSortedOneEntryPerPath ==
    /\ INDEX_NAME \in DOMAIN gitFiles => verifyIndexChecksum(gitFiles[INDEX_NAME]) = "ok"
    /\ ReadIndex(FS).st = "ok"
    /\ \A k \in 1..(Len(ReadIndex(FS).entries) - 1) :
           Less(ReadIndex(FS).entries[k].path, ReadIndex(FS).entries[k + 1].path)
    /\ (hist.cmd = "add" /\ hist.out = "ok") =>
           \A path \in hist.paths :
               EntriesOf({path}, ReadIndex(FS).entries)
                   = <<IndexEntry(FileStat(path, work[path].content), REGULAR_FILE_MODE,
                                  HexDecode(WHash(path)).out, path)>>

\* "a" has been added again with another content while ".gitignore", added
\* after it, is in the index: two entries, ".gitignore" first.
C14_Witness ==
    /\ hist.cmd = "add" /\ hist.out = "ok" /\ hist.paths = {FILE_A}
    /\ hist.added = NoAdded
    /\ Len(ReadIndex(FS).entries) = 2
    /\ ReadIndex(FS).entries[1].path = GITIGNORE
    /\ ReadIndex(FS).entries[2].path = FILE_A
    /\ ReadIndex(FS).entries[1].sha1 # ReadIndex(FS).entries[2].sha1

FSNext == [files |-> gitFiles', dirs |-> gitDirs']
ResetRemovesListed ==
    (hist'.cmd = "reset" /\ hist'.out = "ok") =>
        /\ ReadIndex(FSNext).st = "ok"
        /\ ReadIndex(FSNext).entries
               = EntriesOf(IndexPaths \ hist'.paths, ReadIndex(FS).entries)
AddThenResetRestores ==
    (hist.cmd = "reset" /\ hist.out = "ok" /\ hist.added # NoAdded) =>
        ReadIndex(FS).entries = hist.added.entries0

\* C15: RemoveFilesFromIndex removes exactly the entries whose path is in
\* the given list and leaves every other entry, all of its fields, as it
\* was; adding a path that was not in the index and then resetting it yields
\* the entry list the index had before.
C15_ResetRemovesExactly == [][ResetRemovesListed]_vars /\ []AddThenResetRestores

\* ".gitignore" was added to an index that held "a" and then reset: the
\* index holds the entry of "a" again and nothing else.
C15_Witness ==
    /\ hist.cmd = "reset" /\ hist.out = "ok" /\ hist.paths = {GITIGNORE}
    /\ hist.added.path = GITIGNORE
    /\ Len(hist.added.entries0) = 1
    /\ ReadIndex(FS).entries = hist.added.entries0
    /\ ReadIndex(FS).entries[1].path = FILE_A

-----------------------------------------------------------------------------
(* Claims about branches *)

\* C16: for every branch whose ref file exists, in a repository made by init
\* as well as in a cloned one, CheckoutBranch checks the commit of the branch
\* out, returns success and leaves "ref: refs/heads/<name>" in HEAD; HEAD is
\* rewritten only after the commit has been checked out, and once HEAD is
\* rewritten the command does not report a failure.
C16_CheckoutSucceedsAndSetsHead ==
    (hist.cmd = "checkout" /\ Join(HEADS_DIR, hist.branch) \in DOMAIN hist.files0) =>
        /\ gitFiles[HEAD_NAME] # hist.files0[HEAD_NAME] => pc # "checkout_head"
        /\ gitFiles[HEAD_NAME] # hist.files0[HEAD_NAME] => hist.out \in {"running", "ok"}
        /\ pc = "done" =>
               /\ hist.out = "ok"
               /\ gitFiles[HEAD_NAME] = REF_HEADS_PREFIX \o hist.branch

-----------------------------------------------------------------------------
(* Tree runs: a commit made by git is checked out over a working tree and    *)
(* the tree of the working tree is written                                   *)

\* The files of a commit: path, mode of the tree entry and content of the
\* blob.  "a", the executable "x", the symbolic link "l" to "a", ".h", and
\* "c" and ".k" in the directory "d".
TreeLeaves ==
    {[path |-> <<97>>, mode |-> REGULAR_FILE_MODE, content |-> <<120>>],
     [path |-> <<120>>, mode |-> EXECUTABLE_FILE_MODE, content |-> <<121>>],
     [path |-> <<108>>, mode |-> SYMBOLIC_LINK_MODE, content |-> <<97>>],
     [path |-> <<46, 104>>, mode |-> REGULAR_FILE_MODE, content |-> <<120>>],
     [path |-> <<100, 47, 99>>, mode |-> REGULAR_FILE_MODE, content |-> <<122>>],
     [path |-> <<100, 47, 46, 107>>, mode |-> REGULAR_FILE_MODE, content |-> <<121>>]}

\* What the working tree holds before the checkout: nothing, the file "z",
\* or the hidden file ".o"
StaleTrees ==
    {NoFiles,
     FilePut(NoFiles, <<122>>, RegularFile(<<122>>)),
     FilePut(NoFiles, <<46, 111>>, RegularFile(<<122>>))}

LeafFiles(leaves) ==
    [path \in {l.path : l \in leaves} |-> CHOOSE l \in leaves : l.path = path]

\* The tree object git writes for the leaves under dir, with the blobs and
\* the trees under it
RECURSIVE GitTree(_, _, _)
RECURSIVE GitTreeEntries(_, _, _, _, _)
GitTreeEntries(names, dir, entries, leafFiles, store) ==
    IF names = {} THEN [entries |-> entries, store |-> store]
    ELSE Let(CHOOSE n \in names : TRUE, LAMBDA name :
         Let(Join(dir, name), LAMBDA fullPath :
         IF fullPath \in DOMAIN leafFiles
         THEN Let(createObjectFile(Blob, leafFiles[fullPath].content, store), LAMBDA blobObj :
              GitTreeEntries(names \ {name}, dir,
                  Append(entries, TreeEntry(blobObj.hash, leafFiles[fullPath].mode, name, Blob)),
                  leafFiles, blobObj.store))
         ELSE Let(GitTree(fullPath, leafFiles, store), LAMBDA subTree :
              GitTreeEntries(names \ {name}, dir,
                  Append(entries, TreeEntry(subTree.hash, DIRECTORY_MODE, name, Tree)),
                  leafFiles, subTree.store))))
GitTree(dir, leafFiles, store) ==
    Let(GitTreeEntries(ReadDir(dir, leafFiles), dir, <<>>, leafFiles, store), LAMBDA d :
    createObjectFile(Tree, treeContent(SortBy(d.entries, EntryName)).out, d.store))

\* The commit of the leaves
GitCommit(leaves) ==
    Let(GitTree(<<>>, LeafFiles(leaves), EmptyStore), LAMBDA t :
    createCommitObjectFromTree(t.hash, <<>>, <<109>>, t.store))

T0(cmd, commit, leaves) ==
    [cmd |-> cmd, commit |-> commit, leaves |-> leaves, out |-> "ok", printed |-> <<>>]

InitTree ==
    /\ DeltaIdle
    /\ PackIdle
    /\ PktIdle
    /\ gitFiles = initRepo([files |-> << >>, dirs |-> {}]).fs.files
    /\ gitDirs = initRepo([files |-> << >>, dirs |-> {}]).fs.dirs
    /\ stage = <<>>
    /\ work \in StaleTrees
    /\ \E leaves \in (SUBSET TreeLeaves) \ {{}} :
         \E c \in {GitCommit(leaves)} :
           /\ objects = c.store
           /\ hist = T0("init", c.hash, leaves)
    /\ srvRefs = << >> /\ srvObjects = << >> /\ made = 0
    /\ pc = "idle" /\ loc = NoLoc

\* The commit is checked out
CheckoutCommitCall ==
    /\ hist.cmd = "init"
    /\ \E c \in {CheckoutCommit(hist.commit, work, stage, objects)} :
         /\ work' = c.work
         /\ stage' = c.index
         /\ objects' = c.store
         /\ hist' = [hist EXCEPT !.cmd = "checkout", !.out = c.st]
    /\ UNCHANGED <<gitFiles, gitDirs, srvRefs, srvObjects, made, pc, loc>>
    /\ UNCHANGED notRepoVars

\* write-working-tree: the hash of the tree of the working tree is printed
WriteWorkingTreeHandler ==
    /\ hist.cmd = "checkout"
    /\ \E treeObj \in {createTreeObjectFromDirectory(<<>>, work, objects)} :
         /\ objects' = treeObj.store
         /\ hist' = [hist EXCEPT !.cmd = "write-working-tree",
                                 !.out = IF hist.out = "ok" THEN treeObj.st ELSE "unchecked",
                                 !.printed = treeObj.hash]
    /\ UNCHANGED <<gitFiles, gitDirs, stage, work, srvRefs, srvObjects, made, pc, loc>>
    /\ UNCHANGED notRepoVars

NextTree == CheckoutCommitCall \/ WriteWorkingTreeHandler
SpecTree == InitTree /\ [][NextTree]_vars

-----------------------------------------------------------------------------
(* Claims about the checked-out tree *)

CommitTreeHash == readCommitObjectFile(hist.commit, objects).treeHash

\* C17: after a successful checkout of a commit, write-working-tree succeeds
\* and prints the tree hash of the commit, for every commit tree: nested
\* directories, names that start with ".", executable files and symbolic
\* links included.
C17_CheckoutTreeRoundTrip ==
    (hist.cmd = "write-working-tree" /\ hist.out # "unchecked") =>
        /\ hist.out = "ok"
        /\ hist.printed = CommitTreeHash

\* The same for the commits without a symbolic link and without a name that
\* starts with ".": regular and executable files, nested or not
C17_PlainTreeRoundTrip ==
    (/\ hist.cmd = "write-working-tree" /\ hist.out # "unchecked"
     /\ \A l \in hist.leaves :
            /\ l.mode # SYMBOLIC_LINK_MODE
            /\ \A name \in {Split(l.path, 47)[k] : k \in 1..Len(Split(l.path, 47))} :
                   name[1] # 46) =>
        /\ hist.out = "ok"
        /\ hist.printed = CommitTreeHash

-----------------------------------------------------------------------------
(* Object runs: objects are written to the store and read back *)

MaxObjPayloadLen == 2
MaxObjWrites == 2
\* NUL and space, the two separators of the object header
ObjBytes == {0, 32}
ObjPayloads == UNION {[1..n -> ObjBytes] : n \in 0..MaxObjPayloadLen}
ObjKinds == {Blob, Tree, Commit}

\* hist.written: the hash the first write of each (kind, payload) returned
O0 ==
    [cmd |-> "init", kind |-> Blob, payload |-> <<>>, hash |-> <<>>, again |-> FALSE,
     store0 |-> EmptyStore, written |-> << >>, writes |-> 0, read |-> ObjErr,
     treeHash |-> <<>>, out |-> "ok"]

InitObject ==
    /\ DeltaIdle
    /\ PackIdle
    /\ PktIdle
    /\ gitFiles = initRepo([files |-> << >>, dirs |-> {}]).fs.files
    /\ gitDirs = initRepo([files |-> << >>, dirs |-> {}]).fs.dirs
    /\ objects = EmptyStore /\ stage = <<>> /\ work = NoFiles
    /\ srvRefs = << >> /\ srvObjects = << >> /\ made = 0
    /\ pc = "idle" /\ loc = NoLoc
    /\ hist = O0

\* createObjectFile(kind, payload)
WriteObject ==
    /\ hist.writes < MaxObjWrites
    /\ \E kind \in ObjKinds, payload \in ObjPayloads :
         \E w \in {createObjectFile(kind, payload, objects)} :
           /\ objects' = w.store
           /\ hist' = [hist EXCEPT !.cmd = "write", !.kind = kind, !.payload = payload,
                                   !.hash = w.hash, !.store0 = objects,
                                   !.again = <<kind, payload>> \in DOMAIN hist.written,
                                   !.written =
                                       IF <<kind, payload>> \in DOMAIN @ THEN @
                                       ELSE MapPut(@, <<kind, payload>>, w.hash),
                                   !.writes = @ + 1, !.read = ObjErr]
    /\ UNCHANGED <<gitFiles, gitDirs, stage, work, srvRefs, srvObjects, made, pc, loc>>
    /\ UNCHANGED notRepoVars

\* readObjectFile of the hash the last write returned
ReadObject ==
    /\ hist.cmd = "write"
    /\ hist' = [hist EXCEPT !.cmd = "read", !.read = readObjectFile(hist.hash, objects)]
    /\ UNCHANGED <<gitFiles, gitDirs, objects, stage, work, srvRefs, srvObjects, made, pc, loc>>
    /\ UNCHANGED notRepoVars

\* The hashes given to commit-tree: those of the objects of the store, a
\* hash of forty digits that names no object, and "x"
CommitTreeArgs(store) == (DOMAIN store) \cup {ZERO_HASH, <<120>>}

\* commit-tree <tree_sha> [-p <parent_commit_sha>]: log.Fatal on a hash that
\* is not forty characters of [a-z0-9]; the commit is written otherwise
CommitTreeHandler ==
    /\ hist.writes < MaxObjWrites
    /\ \E treeHash \in CommitTreeArgs(objects), parentCommitHash \in {<<>>, ZERO_HASH} :
         IF ~isValidObjectHash(treeHash)
         THEN /\ hist' = [hist EXCEPT !.cmd = "commit-tree", !.treeHash = treeHash,
                                      !.out = "fatal", !.hash = <<>>, !.store0 = objects]
              /\ UNCHANGED objects
         ELSE \E commitObj \in {createCommitObjectFromTree(treeHash,
                                    IF parentCommitHash = <<>> THEN <<>>
                                    ELSE <<parentCommitHash>>,
                                    DEFAULT_MESSAGE, objects)} :
                /\ objects' = commitObj.store
                /\ hist' = [hist EXCEPT !.cmd = "commit-tree", !.treeHash = treeHash,
                                        !.out = commitObj.st, !.hash = commitObj.hash,
                                        !.store0 = objects, !.writes = @ + 1]
    /\ UNCHANGED <<gitFiles, gitDirs, stage, work, srvRefs, srvObjects, made, pc, loc>>
    /\ UNCHANGED notRepoVars

NextObject == WriteObject \/ ReadObject \/ CommitTreeHandler
SpecObject == InitObject /\ [][NextObject]_vars

-----------------------------------------------------------------------------
(* Claims about the object store *)

\* C18: reading an object back by the hash its write returned yields the
\* kind written, a size equal to the length of the payload, and the payload;
\* writing the same kind and payload again returns the same hash and leaves
\* the object store as it was.
C18_ObjectRoundTrip ==
    /\ hist.cmd = "read" =>
           hist.read = [st |-> "ok", type |-> hist.kind, size |-> Len(hist.payload),
                        content |-> hist.payload]
    /\ (hist.cmd \in {"write", "read"} /\ hist.again) =>
           /\ \A k \in DOMAIN hist.written :
                  k = <<hist.kind, hist.payload>> => hist.written[k] = hist.hash
           /\ hist.hash \in DOMAIN hist.store0
           /\ objects = hist.store0

\* The tree with the payload NUL space was written a second time and read
\* back.
C18_Witness ==
    /\ hist.cmd = "read" /\ hist.again
    /\ hist.kind = Tree /\ hist.payload = <<0, 32>>
    /\ hist.read.st = "ok" /\ hist.read.content = <<0, 32>>
    /\ hist.writes = 2 /\ Cardinality(DOMAIN objects) = 1

\* Every commit object of the store that parses names a tree object of the
\* store
CommitTreesPresent ==
    \A h \in DOMAIN objects :
        (readObjectFile(h, objects).type = Commit
         /\ readCommitObjectFile(h, objects).st = "ok") =>
            readTreeObjectFile(readCommitObjectFile(h, objects).treeHash, objects).st = "ok"

\* C19: when commit-tree writes a commit object for a tree hash given by the
\* user, that hash names a tree object that is in the object store at that
\* moment, as it does for the commits written by commit and by branch.
C19_CommitTreeExists ==
    (hist.cmd = "commit-tree" /\ hist.out = "ok") =>
        /\ hist.treeHash \in DOMAIN hist.store0
        /\ readTreeObjectFile(hist.treeHash, hist.store0).st = "ok"
        /\ CommitTreesPresent

\* C20: CreateBranch of a name whose ref file refs/heads/<name> exists
\* returns an error without reaching the write of the ref, and HEAD, the ref
\* of the branch and every other ref are what they were before the command.
C20_ExistingBranchRefused ==
    (hist.cmd = "branch" /\ Join(HEADS_DIR, hist.branch) \in DOMAIN hist.files0) =>
        /\ pc # "branch_ref"
        /\ pc = "done" => hist.out = "err"
        /\ gitFiles = hist.files0

\* branch master in a repository whose refs/heads/master exists has
\* returned its error.
C20_Witness ==
    /\ pc = "done" /\ hist.cmd = "branch" /\ hist.branch = MASTER
    /\ Join(HEADS_DIR, MASTER) \in DOMAIN hist.files0
    /\ hist.out = "err"
    /\ gitFiles = hist.files0

-----------------------------------------------------------------------------
(* Claims about commit *)

\* What HEAD resolved to when the command started
Head0 == ResolveRef(HEAD_NAME, [files |-> hist.files0, dirs |-> gitDirs])
HeadSymbolic0 == HasPrefix(TrimSpace(hist.files0[HEAD_NAME]), REF_PREFIX)
HeadBranchFile0 == TrimPrefix(TrimSpace(hist.files0[HEAD_NAME]), REF_PREFIX)

\* C21: a commit that has returned made HEAD resolve to a new commit whose
\* parents are exactly the commit HEAD resolved to before (none when the
\* branch of HEAD had no commit); with a symbolic HEAD the HEAD file is
\* unchanged and the branch file it names is the only file written.
C21_CommitParentAndHead ==
    (hist.cmd = "commit" /\ pc = "done" /\ hist.out = "ok") =>
        /\ ResolveRef(HEAD_NAME, FS).st = "ok" /\ ResolveRef(HEAD_NAME, FS).exists
        /\ ~(Head0.exists /\ Head0.hash = ResolveRef(HEAD_NAME, FS).hash)
        /\ readCommitObjectFile(ResolveRef(HEAD_NAME, FS).hash, objects).st = "ok"
        /\ readCommitObjectFile(ResolveRef(HEAD_NAME, FS).hash, objects).parentCommitHashes
               = (IF Head0.exists THEN <<Head0.hash>> ELSE <<>>)
        /\ HeadSymbolic0 =>
               /\ gitFiles[HEAD_NAME] = hist.files0[HEAD_NAME]
               /\ gitFiles[HeadBranchFile0] = ResolveRef(HEAD_NAME, FS).hash
               /\ \A path \in (DOMAIN gitFiles) \ {HeadBranchFile0} :
                      path \in DOMAIN hist.files0 /\ gitFiles[path] = hist.files0[path]

\* A commit on top of the commit HEAD resolved to has returned.
C21_Witness ==
    /\ hist.cmd = "commit" /\ pc = "done" /\ hist.out = "ok"
    /\ Head0.exists /\ HeadSymbolic0
    /\ readCommitObjectFile(ResolveRef(HEAD_NAME, FS).hash, objects).parentCommitHashes
           = <<Head0.hash>>

-----------------------------------------------------------------------------
(* Received packs: packs as a git server sends them, with ofs-delta and     *)
(* ref-delta entries, read into a local object store                        *)

MaxRecvEntries == 3

\* The blob "ab" of the pack, the blob "l" of the local store, and the byte
\* every delta of these packs appends to its base
RECV_BASE  == <<97, 98>>
RECV_LOCAL == <<108>>
RECV_GROW  == <<99>>
\* The delta that copies a base of n bytes and adds "c"
GrowDelta(n) == EncodeDelta(n, n + 1, <<CopyInstr(0, n), AddInstr(RECV_GROW)>>)

\* An entry: the blob "ab"; an ofs-delta whose base is the entry `back`
\* entries before it (0: itself); a ref-delta whose base is the blob "ab", the
\* local blob "l", the object "abc" another delta of the pack yields, or an
\* object that is nowhere
RefBases == {"blob", "local", "grown", "absent"}
RecvKinds ==
    {[k |-> "blob", back |-> 0, base |-> "none"]}
      \cup {[k |-> "ofs", back |-> d, base |-> "none"] : d \in 0..2}
      \cup {[k |-> "ref", back |-> 0, base |-> b] : b \in RefBases}
RecvEntryLists == UNION {[1..n -> RecvKinds] : n \in 1..MaxRecvEntries}

BaseContent(b) ==
    IF b = "blob" THEN RECV_BASE
    ELSE IF b = "local" THEN RECV_LOCAL
    ELSE IF b = "grown" THEN RECV_BASE \o RECV_GROW
    ELSE <<>>
BlobHash(content) == hashObjectWithoutWrite(Blob, content, EmptyStore).hash
BaseHash(b) == IF b = "absent" THEN ZERO_HASH ELSE BlobHash(BaseContent(b))

\* The content of the base of entry k and of the object entry k encodes
\* (<<>>: the entry has no base)
RECURSIVE EntryContent(_, _)
EntryBase(es, k) ==
    IF es[k].k = "ref" THEN BaseContent(es[k].base)
    ELSE IF es[k].k = "ofs" /\ es[k].back > 0 /\ k - es[k].back >= 1
    THEN EntryContent(es, k - es[k].back)
    ELSE <<>>
EntryContent(es, k) ==
    IF es[k].k = "blob" THEN RECV_BASE
    ELSE IF EntryBase(es, k) = <<>> THEN <<>>
    ELSE EntryBase(es, k) \o RECV_GROW

EntryDelta(es, k) ==
    GrowDelta(IF EntryBase(es, k) = <<>> THEN Len(RECV_BASE) ELSE Len(EntryBase(es, k)))

\* The offset encoding of an ofs-delta, for offsets of one or two bytes
EncodeOffset(n) ==
    IF n < 128 THEN <<n>> ELSE <<128 + ((n \div 128) - 1), n % 128>>

\* The bytes of entry k; starts[j] is the position of entry j in the pack.
\* The base of an ofs-delta that has no entry to point to lies before the
\* start of the pack.
RecvEntry(es, k, starts) ==
    IF es[k].k = "blob"
    THEN encodePackfileObjectHeader(PACKFILE_OBJ_BLOB, Len(RECV_BASE)).out
             \o zlibCompressBytes(RECV_BASE)
    ELSE IF es[k].k = "ref"
    THEN encodePackfileObjectHeader(PACKFILE_OBJ_REF_DELTA, Len(EntryDelta(es, k))).out
             \o HexDecode(BaseHash(es[k].base)).out
             \o zlibCompressBytes(EntryDelta(es, k))
    ELSE encodePackfileObjectHeader(PACKFILE_OBJ_OFS_DELTA, Len(EntryDelta(es, k))).out
             \o EncodeOffset(IF es[k].back = 0 THEN 0
                             ELSE IF k - es[k].back < 1 THEN starts[k] + 1
                             ELSE starts[k] - starts[k - es[k].back])
             \o zlibCompressBytes(EntryDelta(es, k))

RECURSIVE RecvBody(_, _, _, _)
RecvBody(es, k, starts, acc) ==
    IF k > Len(es) THEN acc
    ELSE RecvBody(es, k + 1, Append(starts, Len(acc)),
                  acc \o RecvEntry(es, k, Append(starts, Len(acc))))

RecvPackBody(es) ==
    RecvBody(es, 1, <<>>,
             PACKFILE_SIGNATURE \o AppendUint32(PACKFILE_VERSION_NUMBER)
                 \o AppendUint32(Len(es)))

\* Packs with a valid checksum that end early: the header declares one
\* object more than the body holds; the same with the first byte of the
\* header of that object, its continuation bit set; the same with two bytes
\* of its size
RecvDamage == {"none", "count", "cut_header", "cut_size"}
RecvPack(es, damage) ==
    Let(RecvPackBody(es), LAMBDA body :
    IF damage = "none" THEN Reseal(body)
    ELSE Let(SetByte(body, 11, Len(es) + 1), LAMBDA more :
         IF damage = "count" THEN Reseal(more)
         ELSE IF damage = "cut_header" THEN Reseal(more \o <<176>>)
         ELSE Reseal(more \o <<176, 128>>)))

RecvLocalStores == {EmptyStore, createObjectFile(Blob, RECV_LOCAL, EmptyStore).store}

InitRecv ==
    /\ DeltaIdle
    /\ PktIdle
    /\ RepoIdle
    /\ pStore = EmptyStore /\ pCreateRes = "none"
    /\ pEntries \in RecvEntryLists
    /\ pCorrupt \in RecvDamage
    /\ pHashes = [k \in 1..Len(pEntries) |->
                     IF EntryContent(pEntries, k) = <<>> THEN <<>>
                     ELSE BlobHash(EntryContent(pEntries, k))]
    /\ pPack = RecvPack(pEntries, pCorrupt)
    /\ pDst0 \in RecvLocalStores
    /\ pDst = pDst0
    /\ pReadRes = "none"
    /\ pPhase = "recv"

\* ReadPackfile of the received pack
ReadReceivedPack ==
    /\ pPhase = "recv"
    /\ \E r \in {ReadPackfile(pPack, pDst)} :
         /\ pReadRes' = r.st
         /\ pDst' = r.store
    /\ pPhase' = "read"
    /\ UNCHANGED <<pStore, pHashes, pCreateRes, pPack, pCorrupt, pDst0, pEntries>>
    /\ UNCHANGED notPackVars

NextRecv == ReadReceivedPack
SpecRecv == InitRecv /\ [][NextRecv]_vars

-----------------------------------------------------------------------------
(* Claims about received packs *)

\* C22: the resolution of an ofs-delta returns, with a result or an error,
\* for every base offset, 0 included, and every chain of ofs-delta bases.
C22_OfsDeltaResolutionReturns ==
    pPhase = "read" => pReadRes # "diverge"

\* The objects of the local store, by content
LocalContents(store) == IF store = EmptyStore THEN {} ELSE {RECV_LOCAL}

\* An ofs-delta whose base is an earlier entry that is a blob or such an
\* ofs-delta
RECURSIVE OfsResolvable(_, _)
OfsResolvable(es, k) ==
    /\ es[k].k = "ofs" /\ es[k].back > 0 /\ k - es[k].back >= 1
    /\ \/ es[k - es[k].back].k = "blob"
       \/ OfsResolvable(es, k - es[k].back)

\* The objects that are in the local store or can be reconstructed from the
\* entries of the pack, in whatever order they come: n rounds of resolving
\* the ref-deltas whose base is there
RECURSIVE Reconstructed(_, _, _)
Reconstructed(es, have, n) ==
    IF n = 0 THEN have
    ELSE Reconstructed(es,
             have \cup {EntryContent(es, k) :
                           k \in {j \in 1..Len(es) :
                                     es[j].k = "ref" /\ BaseContent(es[j].base) \in have}},
             n - 1)
Available(es, store) ==
    Reconstructed(es,
        LocalContents(store)
            \cup {EntryContent(es, k) :
                     k \in {j \in 1..Len(es) : es[j].k = "blob" \/ OfsResolvable(es, j)}},
        Len(es))

AllResolvable(es, store) ==
    \A k \in 1..Len(es) :
        \/ es[k].k = "blob"
        \/ OfsResolvable(es, k)
        \/ es[k].k = "ref" /\ BaseContent(es[k].base) \in Available(es, store)

\* C23: ReadPackfile resolves every ref-delta whose base is in the local
\* store or is reconstructed from another entry of the pack, whatever the
\* order of the entries (a base that is itself a ref-delta queued later
\* included); when it succeeds every object encoded in the pack is in the
\* store.
C23_RefDeltasResolvedInAnyOrder ==
    (pPhase = "read" /\ pCorrupt = "none") =>
        /\ AllResolvable(pEntries, pDst0) => pReadRes = "ok"
        /\ pReadRes = "ok" =>
               \A k \in 1..Len(pEntries) :
                   pHashes[k] # <<>> /\ pHashes[k] \in DOMAIN pDst

\* The same for the packs in which no ref-delta has as base the object a
\* ref-delta later in the pack yields
RefBaseBefore(es, store) ==
    \A k \in 1..Len(es) :
        es[k].k = "ref" =>
            BaseContent(es[k].base) \in
                Available(SubSeq(es, 1, k - 1)
                              \o [j \in 1..(Len(es) - k + 1) |->
                                     IF es[j + k - 1].k = "ref"
                                     THEN [k |-> "ref", back |-> 0, base |-> "absent"]
                                     ELSE es[j + k - 1]],
                          store)
C23_RefDeltasResolvedInQueueOrder ==
    (pPhase = "read" /\ pCorrupt = "none") =>
        /\ (AllResolvable(pEntries, pDst0) /\ RefBaseBefore(pEntries, pDst0)) =>
               pReadRes = "ok"
        /\ pReadRes = "ok" =>
               \A k \in 1..Len(pEntries) :
                   pHashes[k] # <<>> /\ pHashes[k] \in DOMAIN pDst

\* The entries of the pack are read without error when the pack is whole
ReadableEntries == AllResolvable(pEntries, pDst0) /\ RefBaseBefore(pEntries, pDst0)

\* C26: a pack with a valid checksum and readable entries whose header
\* declares more objects than its body holds, or whose last object header or
\* size is cut short, makes ReadPackfile return an error value.
C26_TruncatedPackIsAnError ==
    (pPhase = "read" /\ ReadableEntries /\ pCorrupt \in {"count", "cut_header", "cut_size"}) =>
        pReadRes = "err"

\* The same without the packs that only declare one object too many
C26_CutHeaderIsAnError ==
    (pPhase = "read" /\ ReadableEntries /\ pCorrupt \in {"cut_header", "cut_size"}) =>
        pReadRes = "err"

-----------------------------------------------------------------------------
(* Claims about malformed deltas *)

\* The source and target size at the head of the delta can be read
SizesRead ==
    /\ readVariableSizeEncoding(dDelta, 0, 7).st = "ok"
    /\ readVariableSizeEncoding(dDelta, readVariableSizeEncoding(dDelta, 0, 7).i, 7).st = "ok"

\* An encoded run with a COPY whose range exceeds the base
CopyExceedsBase ==
    /\ dKind = "enc"
    /\ \E k \in 1..Len(dInstrs) :
           /\ dInstrs[k].op = "COPY"
           /\ dInstrs[k].off + EffectiveSize(dInstrs[k].size) > Len(dBase)

\* C27: applyDelta returns an error value, and never indexes past the end of
\* the delta or the base, for a delta whose COPY command announces offset or
\* size bytes beyond the end of the instructions, whose COPY range exceeds
\* the base, or whose ADD length exceeds the rest of the instructions.
C27_MalformedDeltaIsAnError ==
    dPhase = "done" =>
        /\ SizesRead => dRes.st \in {"ok", "err"}
        /\ CopyExceedsBase => dRes.st = "err"

\* The same for the deltas put together from whole instructions: no COPY
\* field is missing in them
C27_WholeInstructionsChecked ==
    (dPhase = "done" /\ dKind = "enc") =>
        /\ dRes.st \in {"ok", "err"}
        /\ CopyExceedsBase => dRes.st = "err"


-----------------------------------------------------------------------------
(* Index rewrites: add and reset rewrite .git/index in three writes, and
   the index is read between them *)

\* The content of the index file after os.Create, after the write of the
\* header and the entries, and after the write of the checksum
writeIndexSteps(entries) ==
    Let(indexData(SortBy(entries, EntryPath)), LAMBDA data :
    <<<<>>, data, data \o Sha1Sum(data)>>)

\* The entries AddFilesToIndex hands to writeIndex
addedIndexEntries(pathsSet, fs, wfiles, store) ==
    Let(ReadIndex(fs), LAMBDA currIndexEntries :
    IF currIndexEntries.st # "ok" THEN [st |-> "err", index |-> <<>>, store |-> store]
    ELSE createIndexEntries(pathsSet,
             SelectSeq(currIndexEntries.entries,
                       LAMBDA entry : entry.path \notin pathsSet),
             wfiles, store))

\* The entries RemoveFilesFromIndex hands to writeIndex
keptIndexEntries(pathsSet, fs) ==
    Let(ReadIndex(fs), LAMBDA currIndexEntries :
    IF currIndexEntries.st # "ok" THEN IndexRes("err", <<>>)
    ELSE IndexRes("ok", SelectSeq(currIndexEntries.entries,
                                  LAMBDA entry : entry.path \notin pathsSet)))

\* What is recorded of the last step: the command, the entries the index
\* had before the rewrite in progress, and what a read of the index returned
W0(cmd) == [cmd |-> cmd, out |-> "ok", read |-> IndexRes("none", <<>>)]
Rewriting(entries, entries0) == [entries |-> entries, entries0 |-> entries0, step |-> 1]

InitRewrite ==
    /\ DeltaIdle
    /\ PackIdle
    /\ PktIdle
    /\ gitFiles = initRepo([files |-> << >>, dirs |-> {}]).fs.files
    /\ gitDirs = initRepo([files |-> << >>, dirs |-> {}]).fs.dirs
    /\ objects = EmptyStore /\ stage = <<>> /\ work = NoFiles
    /\ srvRefs = << >> /\ srvObjects = << >> /\ made = 0
    /\ pc = "idle" /\ loc = NoLoc
    /\ hist = W0("init")

EditWorkingFile ==
    /\ \E path \in IndexPaths, c \in IndexContents :
         /\ (IF path \in DOMAIN work THEN work[path].content # c ELSE TRUE)
         /\ work' = FilePut(work, path, RegularFile(c))
         /\ hist' = W0("write")
    /\ UNCHANGED <<gitFiles, gitDirs, objects, stage, srvRefs, srvObjects, made, pc, loc>>
    /\ UNCHANGED notRepoVars

\* add <file> ... up to os.Create of the index file
AddCreatesIndex ==
    /\ pc = "idle"
    /\ \E paths \in (SUBSET (DOMAIN work)) \ {{}} :
       \E r \in {addedIndexEntries(paths, FS, work, objects)} :
         /\ objects' = r.store
         /\ IF r.st # "ok"
            THEN /\ hist' = [W0("add") EXCEPT !.out = "fatal"]
                 /\ UNCHANGED <<gitFiles, pc, loc>>
            ELSE /\ gitFiles' = FilePut(gitFiles, INDEX_NAME, writeIndexSteps(r.index)[1])
                 /\ pc' = "writing"
                 /\ loc' = Rewriting(r.index, ReadIndex(FS).entries)
                 /\ hist' = W0("add")
    /\ UNCHANGED <<gitDirs, stage, work, srvRefs, srvObjects, made>>
    /\ UNCHANGED notRepoVars

\* reset <file> ... up to os.Create of the index file
ResetCreatesIndex ==
    /\ pc = "idle"
    /\ \E paths \in (SUBSET (DOMAIN work)) \ {{}} :
       \E r \in {keptIndexEntries(paths, FS)} :
         IF r.st # "ok"
         THEN /\ hist' = [W0("reset") EXCEPT !.out = "fatal"]
              /\ UNCHANGED <<gitFiles, pc, loc>>
         ELSE /\ gitFiles' = FilePut(gitFiles, INDEX_NAME, writeIndexSteps(r.entries)[1])
              /\ pc' = "writing"
              /\ loc' = Rewriting(r.entries, ReadIndex(FS).entries)
              /\ hist' = W0("reset")
    /\ UNCHANGED <<gitDirs, objects, stage, work, srvRefs, srvObjects, made>>
    /\ UNCHANGED notRepoVars

\* The next write of writeIndex: the data, then the checksum
WriteIndexStep ==
    /\ pc = "writing"
    /\ gitFiles' = FilePut(gitFiles, INDEX_NAME, writeIndexSteps(loc.entries)[loc.step + 1])
    /\ IF loc.step + 1 = Len(writeIndexSteps(loc.entries))
       THEN pc' = "idle" /\ loc' = NoLoc
       ELSE pc' = pc /\ loc' = [loc EXCEPT !.step = @ + 1]
    /\ hist' = W0("step")
    /\ UNCHANGED <<gitDirs, objects, stage, work, srvRefs, srvObjects, made>>
    /\ UNCHANGED notRepoVars

\* Another process reads the index
ReadIndexNow ==
    /\ hist' = [W0("read") EXCEPT !.read = ReadIndex(FS)]
    /\ UNCHANGED <<gitFiles, gitDirs, objects, stage, work, srvRefs, srvObjects, made, pc, loc>>
    /\ UNCHANGED notRepoVars

NextRewrite ==
    \/ EditWorkingFile
    \/ AddCreatesIndex
    \/ ResetCreatesIndex
    \/ WriteIndexStep
    \/ ReadIndexNow

SpecRewrite == InitRewrite /\ [][NextRewrite]_vars

\* C24: a read of the index made while a rewrite is in progress (after the
\* file is created, after the header and the entries are written, before
\* the checksum is written) returns an error or the complete new entry
\* list, never a part of it and never an empty list of a half-written file.
C24_HalfWrittenIndexRejected ==
    (hist.cmd = "read" /\ pc = "writing") =>
        \/ hist.read.st = "err"
        \/ hist.read = IndexRes("ok", SortBy(loc.entries, EntryPath))

\* A read after the data of a rewrite that changes a non-empty index
C24_Witness ==
    /\ hist.cmd = "read" /\ pc = "writing" /\ loc.step = 2
    /\ loc.entries # <<>> /\ loc.entries0 # <<>>
    /\ SortBy(loc.entries, EntryPath) # loc.entries0
    /\ hist.read.st = "err"


-----------------------------------------------------------------------------
(* Claims about the permissions of checked-out files *)

OwnerExecBit(perm) == (perm \div 64) % 2 = 1

\* C25: after a successful checkout every file written for a tree entry has
\* the permissions of the entry's mode: mode 100755 gives a file whose
\* owner-executable bit is set, mode 100644 a file with no executable bit,
\* mode 120000 a symbolic link, and the Git mode derived again from the
\* written file is the entry's mode.
C25_PermissionsFollowEntryMode ==
    (hist.cmd = "checkout" /\ hist.out = "ok") =>
        \A l \in hist.leaves :
            /\ l.path \in DOMAIN work
            /\ l.mode = EXECUTABLE_FILE_MODE => OwnerExecBit(work[l.path].perm)
            /\ l.mode = REGULAR_FILE_MODE => ~AnyExecBit(work[l.path].perm)
            /\ l.mode = SYMBOLIC_LINK_MODE => work[l.path].symlink
            /\ getGitModeFromFileMode(work[l.path]) = l.mode

\* What holds of the files the checkout creates (no file of that path was
\* there before it): an entry of mode 100644 gives a file with no executable
\* bit, an entry of mode 100755 a file with some executable bit, and for
\* these two modes the mode derived again is the entry's mode
C25_SomeExecBitFollowsEntryMode ==
    (hist.cmd = "checkout" /\ hist.out = "ok") =>
        \A l \in hist.leaves :
            (l.mode # SYMBOLIC_LINK_MODE /\ l.path[1] # 46) =>
                /\ l.path \in DOMAIN work
                /\ l.mode = EXECUTABLE_FILE_MODE => AnyExecBit(work[l.path].perm)
                /\ l.mode = REGULAR_FILE_MODE => ~AnyExecBit(work[l.path].perm)
                /\ getGitModeFromFileMode(work[l.path]) = l.mode


-----------------------------------------------------------------------------
(* Claims about the lists of status *)

StatusLists == {"stagedFiles", "notStagedFiles", "untrackedFiles", "unmodifiedFiles"}
\* The (list, state) reports of a path in the status recorded
ReportsOf(path) ==
    UNION {{<<list, f.status>> : f \in {g \in hist.status[list] : g.path = path}} :
           list \in StatusLists}
KnownPaths == DOMAIN work \cup IndexPathsOf(FS) \cup DOMAIN HeadTreeEntries

\* C28: when a HEAD commit exists, every path of the working tree, the index
\* or the HEAD tree is reported by GetRepoStatus in exactly one of the lists
\* staged, not staged, untracked, unmodified: none twice and none omitted, a
\* path of the working tree and of HEAD that the index lacks included.
C28_EveryPathReportedOnce ==
    (hist.cmd = "status" /\ hist.out = "ok" /\ HeadCommitExists) =>
        \A path \in KnownPaths : Cardinality(ReportsOf(path)) = 1

\* No path is reported twice, and the only paths omitted are those of the
\* working tree that start with ".git" or that HEAD has and the index lacks
C28_NoPathReportedTwice ==
    (hist.cmd = "status" /\ hist.out = "ok" /\ HeadCommitExists) =>
        \A path \in KnownPaths :
            /\ Cardinality(ReportsOf(path)) <= 1
            /\ (/\ ~(path \in DOMAIN work /\ HasPrefix(path, DOT_GIT)
                        /\ path \notin IndexPathsOf(FS))
                /\ ~(path \in DOMAIN work /\ path \in DOMAIN HeadTreeEntries
                        /\ path \notin IndexPathsOf(FS)))
               => Cardinality(ReportsOf(path)) = 1

\* The path FILE_A is in the working tree and in HEAD, the index lacks it,
\* and status lists it nowhere
C28_TrackedPathOmitted ==
    ~(/\ hist.cmd = "status" /\ hist.out = "ok" /\ HeadCommitExists
      /\ FILE_A \in DOMAIN work /\ FILE_A \in DOMAIN HeadTreeEntries
      /\ FILE_A \notin IndexPathsOf(FS)
      /\ ReportsOf(FILE_A) = {})


-----------------------------------------------------------------------------
(* Claims about a branch creation that fails *)

\* The step is a branch command that returns its error for a branch whose
\* ref exists
BranchRefusedStep ==
    /\ pc = "idle" /\ pc' = "done"
    /\ hist'.cmd = "branch" /\ hist'.out = "err"
    /\ Exists(FS, Join(HEADS_DIR, hist'.branch))

\* C29: a branch creation that fails because the branch already exists
\* leaves the index and the object store exactly as they were before the
\* call.
C29_RefusedBranchWritesNothing ==
    [][BranchRefusedStep => (stage' = stage /\ objects' = objects)]_vars

\* The refs and HEAD are what the refused branch creation leaves as they were
C29_RefusedBranchKeepsRefs ==
    [][BranchRefusedStep => (gitFiles' = gitFiles /\ gitDirs' = gitDirs /\ work' = work)]_vars


-----------------------------------------------------------------------------
(* Claims about init in a repository *)

\* The step is an init in a directory that holds a repository
InitOnRepositoryStep ==
    /\ pc = "idle" /\ pc' = "done" /\ hist'.cmd = "init"
    /\ HEAD_NAME \in DOMAIN gitFiles

\* C30: init in a directory that already holds a repository leaves HEAD,
\* every branch ref, the objects and the index unchanged, so the current
\* branch is the one it was, whatever init, branch and checkout came before.
C30_InitKeepsRepository ==
    [][InitOnRepositoryStep =>
          /\ hist'.out = "ok"
          /\ gitFiles' = gitFiles
          /\ objects' = objects /\ stage' = stage
          /\ getCurrentBranch([files |-> gitFiles', dirs |-> gitDirs'])
                 = getCurrentBranch(FS)]_vars

\* Every file but HEAD, the objects, the index and the working tree are
\* what they were, and HEAD names master
C30_InitKeepsAllButHead ==
    [][InitOnRepositoryStep =>
          /\ hist'.out = "ok"
          /\ \A path \in (DOMAIN gitFiles) \ {HEAD_NAME} :
                 path \in DOMAIN gitFiles' /\ gitFiles'[path] = gitFiles[path]
          /\ DOMAIN gitFiles' = DOMAIN gitFiles
          /\ gitFiles'[HEAD_NAME] = INIT_HEAD
          /\ objects' = objects /\ stage' = stage /\ work' = work]_vars

=============================================================================
